---- MODULE Spec2Model ----
(***************************************************************************)
(* A model of the pipeline core of dvc: the Index and its dependency       *)
(* graph (dvc/repo/index.py), the Stage staleness / save / commit /        *)
(* reproduce / checkout operations (dvc/stage/__init__.py) and the         *)
(* repository-level checkout (dvc/repo/checkout.py).                       *)
(*                                                                         *)
(* The module holds several specifications over one set of variables; each *)
(* specification drives one part of the program and leaves the variables   *)
(* of the other parts alone:                                               *)
(*   SpecIndex     Index mutation and lazy graph construction              *)
(*   SpecStage     one stage: save, commit, reproduce, lock                *)
(*   SpecCheckout  two tracked stages: save, commit, checkout              *)
(*   SpecCreate    defining and running stages against their stage file    *)
(*   SpecLock      processes entering operations under the repository lock *)
(*   SpecRepro     experiment executors reproducing a pipeline in a pool   *)
(*   SpecLinks     repository checkout and the cleanup of unused links     *)
(*   SpecDir       checkout of a tracked directory, whole or filtered      *)
(*   SpecHash      the deterministic hash of an Index                      *)
(*   SpecIgnore    the ignore patterns of one directory (dvc/ignore.py)    *)
(*   SpecFilter    the ignore rules resolved over a directory tree         *)
(*   SpecOps       one stage: commit check, update, run, status            *)
(*   SpecReport    Stage.checkout over any results of its outputs          *)
(***************************************************************************)
EXTENDS Integers, Sequences, FiniteSets, TLC

VARIABLES
    stages,     \* the stage objects: definition and recorded state, by id
    ws,         \* the workspace: path -> content, or Absent
    cache,      \* the content-addressable cache: hash -> stored content
    dvcfile,    \* the stage file: its kind and the definitions dumped to it
    envChanges, \* how many times the environment touched workspace or cache
    last,       \* outcome of the last stage operation
    trip,       \* progress of a write/save/commit/delete/checkout round trip
    indices,    \* every Index object obtained so far, in creation order
    skipChecks, \* repo._skip_graph_checks
    ilast,      \* outcome of the last Index operation
    repoLock,   \* the repository lock: the process holding it, or NoProc
    pc,         \* each process: the repository operation it is in, and where
    executors,  \* the experiment executors: workspace copy and progress
    jobs,       \* max_workers of the pool the executors run in
    links,      \* state: the paths recorded as links created by dvc
    hstages,    \* the stage objects of one Index, in iteration order
    pattern_list, \* DvcIgnorePatterns.pattern_list: the lines, in order
    matched,      \* the last path matched against the patterns, the answer
    fstree,       \* the file tree: the ignore file of each directory, the repos
    ignores_trie_tree, \* of the DvcIgnoreFilter: directory -> patterns
    answer        \* what the last call of the filter returned

vars == <<stages, ws, cache, dvcfile, envChanges, last, trip,
          indices, skipChecks, ilast, repoLock, pc,
          executors, jobs,
          links,
          hstages,
          pattern_list, matched,
          fstree, ignores_trie_tree, answer>>

stageVars == <<stages, ws, cache, dvcfile, envChanges, last, trip>>

indexVars == <<indices, skipChecks, ilast>>

lockVars == <<repoLock, pc>>

reproVars == <<executors, jobs>>

linkVars == <<links>>

hashVars == <<hstages>>

ignoreVars == <<pattern_list, matched>>

filterVars == <<fstree, ignores_trie_tree, answer>>

\* What the stage operations, the Index operations, the operations of
\* concurrent processes and the executors leave alone.
nonStageVars == <<indexVars, lockVars, reproVars, linkVars, hashVars, ignoreVars, filterVars>>

nonIndexVars == <<stageVars, lockVars, reproVars, linkVars, hashVars, ignoreVars, filterVars>>

nonLockVars == <<indexVars, reproVars, linkVars, hashVars, ignoreVars, filterVars>>

nonReproVars == <<indexVars, lockVars, linkVars, hashVars, ignoreVars, filterVars>>

nonLinkVars == <<indexVars, lockVars, reproVars, hashVars, ignoreVars, filterVars>>

nonHashVars == <<stageVars, indexVars, lockVars, reproVars, linkVars, ignoreVars, filterVars>>

nonIgnoreVars == <<stageVars, indexVars, lockVars, reproVars, linkVars, hashVars, filterVars>>

nonFilterVars == <<stageVars, indexVars, lockVars, reproVars, linkVars, hashVars, ignoreVars>>

Absent == "absent"
NoHash == "nohash"

\* The stored digest of a stage that was never saved.
NoMd5 == <<>>

\* The stage file where a specification does not follow it.
NoDvcfile == [kind |-> "none", stages |-> <<>>]

(***************************************************************************)
(* Paths are sequences of segments (PathInfo.parts).                       *)
(***************************************************************************)
IsPrefix(p, q) == Len(p) <= Len(q) /\ SubSeq(q, 1, Len(p)) = p

Overlap(p, q) == IsPrefix(p, q) \/ IsPrefix(q, p)

Range(f) == {f[i] : i \in DOMAIN f}

(***************************************************************************)
(*                    STAGE, DEPENDENCY AND OUTPUT OBJECTS                 *)
(***************************************************************************)

\* A dependency / an output entry of a stage: its path and recorded hash.
Dep(p) == [path |-> p, hash |-> NoHash]

Out(p, useCache, persist) ==
    [path |-> p, hash |-> NoHash, use_cache |-> useCache, persist |-> persist]

\* Stage.__init__ / PipelineStage.__init__: a stage object.  kind is
\* "single" (Stage) or "pipeline" (PipelineStage); cmd = "none" is a data
\* source; md5 is the stored digest (NoHash before the first save).
MkStage(file, name, kind, cmd, deps, outs) ==
    [file |-> file, name |-> name, kind |-> kind, cmd |-> cmd,
     locked |-> FALSE, always_changed |-> FALSE, cmd_changed |-> FALSE,
     md5 |-> NoMd5, deps |-> deps, outs |-> outs]

DepPaths(st) == {st.deps[i].path : i \in DOMAIN st.deps}

OutPaths(st) == {st.outs[i].path : i \in DOMAIN st.outs}

(***************************************************************************)
(*                 CONTENT, HASHES, CACHE AND ENTRY STATUS                  *)
(***************************************************************************)

Contents == {"c1", "c2"}

Hashes == {"h1", "h2"}

\* The content hash of a file's bytes.
Hash(c) == CASE c = "c1" -> "h1" [] c = "c2" -> "h2" [] c = "m1" -> "hd"

Min(S) == CHOOSE x \in S : \A y \in S : x <= y

\* The cache object addressed by h exists and its content hashes to h.
CacheOk(c, h) == h \in DOMAIN c /\ c[h] # Absent /\ Hash(c[h]) = h

\* An entry's workspace status: "" when the observed state is the recorded one.
workspace_status(e, w) ==
    IF w[e.path] = Absent THEN "deleted"
    ELSE IF Hash(w[e.path]) # e.hash THEN "modified"
    ELSE ""

\* Dependency.status()
DepStatus(d, w) == workspace_status(d, w)

\* Output.status(): a cache-tracked output is also stale when the cache
\* object of its recorded hash is missing or corrupted.
OutStatus(o, w, c) ==
    IF o.hash # NoHash /\ o.use_cache /\ ~CacheOk(c, o.hash)
    THEN "not in cache"
    ELSE workspace_status(o, w)

\* Entry.save(): records the hash of the workspace content, entry by entry;
\* the first entry missing from the workspace raises and ends the loop.
SaveEntries(es, w) ==
    LET bad  == {i \in DOMAIN es : w[es[i].path] = Absent}
        stop == IF bad = {} THEN Len(es) + 1 ELSE Min(bad)
    IN  [es  |-> [i \in DOMAIN es |->
                    IF i < stop THEN [es[i] EXCEPT !.hash = Hash(w[es[i].path])]
                    ELSE es[i]],
         err |-> bad # {}]

\* Output.commit() over the outputs from the i-th on: a cache-tracked output
\* is stored under its recorded hash when the cache holds no valid object
\* for it, and the workspace path then links to the cache object.
RECURSIVE CommitFrom(_, _, _, _)
CommitFrom(outs, i, w, c) ==
    IF i > Len(outs) THEN [ws |-> w, cache |-> c, err |-> "none"]
    ELSE LET o == outs[i]
         IN  IF ~o.use_cache THEN CommitFrom(outs, i + 1, w, c)
             ELSE IF w[o.path] = Absent \/ o.hash = NoHash
             THEN [ws |-> w, cache |-> c, err |-> "OutputDoesNotExistError"]
             ELSE IF ~CacheOk(c, o.hash)
             THEN CommitFrom(outs, i + 1, w, [c EXCEPT ![o.hash] = w[o.path]])
             ELSE CommitFrom(outs, i + 1, [w EXCEPT ![o.path] = c[o.hash]], c)

\* Output.checkout(force, relink): "none" (not cache-tracked, or nothing to
\* do), "failed" (CheckoutError: the cache object of the recorded hash is
\* missing or corrupted), or the path materialized from the cache and
\* reported added (it did not exist) or modified.
OutCheckout(o, w, c, force, relink) ==
    IF ~o.use_cache THEN [res |-> "none", ws |-> w]
    ELSE IF o.hash = NoHash THEN [res |-> "failed", ws |-> w]
    ELSE IF ~relink /\ CacheOk(c, o.hash) /\ workspace_status(o, w) = ""
    THEN [res |-> "none", ws |-> w]
    ELSE IF ~CacheOk(c, o.hash) THEN [res |-> "failed", ws |-> w]
    ELSE [res |-> IF w[o.path] = Absent THEN "added"
                  ELSE IF ~relink THEN "modified" ELSE "none",
          ws  |-> [w EXCEPT ![o.path] = c[o.hash]]]

\* The hashes that address a directory manifest: a set of entries, each
\* the path of a file relative to the output root and its checksum.
DirHashes == {"hd"}

Entry(rel, h) == [rel |-> rel, hash |-> h]

\* The entries a manifest object lists: the object m1 lists data/f1 and
\* data/sub/f2 of the tracked directory.
load_dir_cache(c, h) ==
    IF c[h] = "m1"
    THEN {Entry(<<"f1">>, "h1"), Entry(<<"sub", "f2">>, "h2")}
    ELSE {}

\* The manifest of a directory output is in the cache with the object of
\* every entry.
DirCacheOk(c, h) ==
    /\ CacheOk(c, h)
    /\ \A e \in load_dir_cache(c, h) : CacheOk(c, e.hash)

\* Whether path p is within the part of the output that filter_info
\* restricts a checkout to (all of it without a filter_info, written <<>>).
InFilter(p, filter_info) == filter_info = <<>> \/ IsPrefix(filter_info, p)

\* dir_materialized leaving the entries that the manifest does not list.
dir_materialized_KeepExtra(o, w, c, filter_info) ==
    [p \in DOMAIN w |->
        IF \E e \in load_dir_cache(c, o.hash) :
              o.path \o e.rel = p /\ InFilter(p, filter_info)
        THEN c[(CHOOSE e \in load_dir_cache(c, o.hash) :
                    o.path \o e.rel = p).hash]
        ELSE w[p]]

\* The workspace after a directory output is materialized: every manifest
\* entry within the filter holds its object, and every other workspace
\* entry under the root and within the filter is removed.
dir_materialized(o, w, c, filter_info) ==
    [p \in DOMAIN w |->
        IF ~IsPrefix(o.path, p) \/ ~InFilter(p, filter_info) THEN w[p]
        ELSE IF \E e \in load_dir_cache(c, o.hash) : o.path \o e.rel = p
        THEN c[(CHOOSE e \in load_dir_cache(c, o.hash) :
                    o.path \o e.rel = p).hash]
        ELSE Absent]

\* Output.checkout of a directory output: failed when the manifest or the
\* object of an entry is missing or corrupted; otherwise the directory is
\* materialized, "added" when nothing was under the root before.
checkout_dir(o, w, c, force, relink, filter_info) ==
    IF ~DirCacheOk(c, o.hash) THEN [res |-> "failed", ws |-> w]
    ELSE LET w2 == dir_materialized(o, w, c, filter_info)
         IN  [res |-> IF \A p \in DOMAIN w : IsPrefix(o.path, p) => w[p] = Absent
                      THEN "added"
                      ELSE IF w2 # w THEN "modified" ELSE "none",
              ws  |-> w2]

\* Output.checkout(force, relink, filter_info): a file, or a directory.
OutputCheckout(o, w, c, force, relink, filter_info) ==
    IF o.hash \in DirHashes
    THEN checkout_dir(o, w, c, force, relink, filter_info)
    ELSE OutCheckout(o, w, c, force, relink)

(***************************************************************************)
(*                               STAGE                                     *)
(***************************************************************************)

\* Stage.is_data_source
is_data_source(st) == st.cmd = "none"

\* Stage.is_callback
is_callback(st) == ~is_data_source(st) /\ Len(st.deps) = 0

\* Stage.is_import
is_import(st) == st.cmd = "none" /\ Len(st.deps) = 1 /\ Len(st.outs) = 1

\* compute_md5: the digest of the stage's definition: command, flags and the
\* dependency and output entries with their recorded hashes.
compute_md5(st) ==
    <<st.cmd, st.locked, st.always_changed, st.deps, st.outs>>

\* Stage.changed_deps without the callback test.
changed_deps_NoCallback(st, w) ==
    IF st.locked THEN [changed |-> FALSE, queried |-> 0]
    ELSE IF st.always_changed THEN [changed |-> TRUE, queried |-> 0]
    ELSE LET bad == {i \in DOMAIN st.deps : DepStatus(st.deps[i], w) # ""}
         IN  [changed |-> bad # {},
              queried |-> IF bad = {} THEN Len(st.deps) ELSE Min(bad)]

\* Stage.changed_deps with the locked test after the callback test.
changed_deps_CallbackFirst(st, w) ==
    IF is_callback(st) THEN [changed |-> TRUE, queried |-> 0]
    ELSE IF st.locked THEN [changed |-> FALSE, queried |-> 0]
    ELSE IF st.always_changed THEN [changed |-> TRUE, queried |-> 0]
    ELSE LET bad == {i \in DOMAIN st.deps : DepStatus(st.deps[i], w) # ""}
         IN  [changed |-> bad # {},
              queried |-> IF bad = {} THEN Len(st.deps) ELSE Min(bad)]

\* Stage.changed_deps: the answer, and how many dependencies (in order) had
\* their status queried.
changed_deps(st, w) ==
    IF st.locked THEN [changed |-> FALSE, queried |-> 0]
    ELSE IF is_callback(st) THEN [changed |-> TRUE, queried |-> 0]
    ELSE IF st.always_changed THEN [changed |-> TRUE, queried |-> 0]
    ELSE LET bad == {i \in DOMAIN st.deps : DepStatus(st.deps[i], w) # ""}
         IN  [changed |-> bad # {},
              queried |-> IF bad = {} THEN Len(st.deps) ELSE Min(bad)]

\* Stage.changed_outs: the answer, and how many outputs had their status
\* queried.
changed_outs(st, w, c) ==
    LET bad == {i \in DOMAIN st.outs : OutStatus(st.outs[i], w, c) # ""}
    IN  [changed |-> bad # {},
         queried |-> IF bad = {} THEN Len(st.outs) ELSE Min(bad)]

\* Stage.changed_stage / PipelineStage.changed_stage
changed_stage(st) ==
    IF st.kind = "pipeline" THEN st.cmd_changed
    ELSE st.md5 # compute_md5(st)

\* Stage._changed evaluating the dependency check before the digest check.
Changed_DepsFirst(st, w, c) ==
    LET d == changed_deps(st, w)
        o == changed_outs(st, w, c)
    IN  IF d.changed
        THEN [changed |-> TRUE, checks |-> <<"deps">>,
              deps |-> d.queried, outs |-> 0]
        ELSE IF changed_stage(st)
        THEN [changed |-> TRUE, checks |-> <<"deps", "stage">>,
              deps |-> d.queried, outs |-> 0]
        ELSE [changed |-> o.changed, checks |-> <<"deps", "stage", "outs">>,
              deps |-> d.queried, outs |-> o.queried]

\* Stage._changed (and Stage.changed, which only logs around it): the
\* answer, the checks evaluated in order, and the number of dependency and
\* output status queries made.
Changed(st, w, c) ==
    LET d == changed_deps(st, w)
        o == changed_outs(st, w, c)
    IN  IF changed_stage(st)
        THEN [changed |-> TRUE, checks |-> <<"stage">>, deps |-> 0, outs |-> 0]
        ELSE IF d.changed
        THEN [changed |-> TRUE, checks |-> <<"stage", "deps">>,
              deps |-> d.queried, outs |-> 0]
        ELSE [changed |-> o.changed, checks |-> <<"stage", "deps", "outs">>,
              deps |-> d.queried, outs |-> o.queried]

(***************************************************************************)
(*                    STAGE OPERATIONS (as functions)                      *)
(***************************************************************************)

\* Stage.save: dependencies, then outputs, then the digest; an entry
\* missing from the workspace raises where it is met.  (The run-cache that
\* save() also feeds is not part of this model: run_stage always executes
\* the command.)
\* Stage.save leaving the stored digest as it was.
StageSave_NoDigest(st, w) ==
    LET d == SaveEntries(st.deps, w)
        o == SaveEntries(st.outs, w)
    IN  IF d.err THEN [st |-> [st EXCEPT !.deps = d.es],
                       err |-> "DependencyDoesNotExistError"]
        ELSE [st |-> [st EXCEPT !.deps = d.es, !.outs = o.es],
              err |-> IF o.err THEN "OutputDoesNotExistError" ELSE "none"]

SaveOuts(st1, w, o) ==
    IF o.err THEN [st |-> [st1 EXCEPT !.outs = o.es],
                   err |-> "OutputDoesNotExistError"]
    ELSE [st |-> [st1 EXCEPT !.outs = o.es,
                             !.md5 = compute_md5([st1 EXCEPT !.outs = o.es])],
          err |-> "none"]

SaveDeps(st, w, d) ==
    IF d.err THEN [st |-> [st EXCEPT !.deps = d.es],
                   err |-> "DependencyDoesNotExistError"]
    ELSE SaveOuts([st EXCEPT !.deps = d.es], w, SaveEntries(st.outs, w))

StageSave(st, w) == SaveDeps(st, w, SaveEntries(st.deps, w))

\* Stage.commit storing nothing in the cache.
StageCommit_NoStore(st, w, c) == [ws |-> w, cache |-> c, err |-> "none"]

\* Stage.commit
StageCommit(st, w, c) == CommitFrom(st.outs, 1, w, c)

\* Stage.remove_outs: persisted outputs are only unprotected unless forced.
remove_outs(st, w, force) ==
    [p \in DOMAIN w |->
        IF \E i \in DOMAIN st.outs :
              st.outs[i].path = p /\ ~(st.outs[i].persist /\ ~force)
        THEN Absent ELSE w[p]]

\* check_missing_outputs
MissingOutputs(st, w) == \E i \in DOMAIN st.outs : w[st.outs[i].path] = Absent

\* Stage.deps_cached / Stage.outs_cached / Stage.already_cached
already_cached(st, w, c) ==
    /\ \A i \in DOMAIN st.deps : DepStatus(st.deps[i], w) = ""
    /\ \A i \in DOMAIN st.outs :
          IF st.outs[i].use_cache THEN CacheOk(c, st.outs[i].hash)
          ELSE OutStatus(st.outs[i], w, c) = ""

\* The result of a step of Stage.run.
RunRes(st, w, c, err, ran) ==
    [st |-> st, ws |-> w, cache |-> c, err |-> err, ran |-> ran]

\* Stage._import_sync (not dry): the single output is checked out from the
\* cache when nothing changed, and downloaded from the dependency otherwise.
import_checkout(st, c, r) ==
    RunRes(st, r.ws, c, IF r.res = "failed" THEN "CheckoutError" ELSE "none",
           FALSE)

import_sync(st, w, c, force) ==
    IF ~force /\ ~changed_stage(st) /\ already_cached(st, w, c)
    THEN import_checkout(st, c, OutCheckout(st.outs[1], w, c, FALSE, FALSE))
    ELSE IF w[st.deps[1].path] = Absent
    THEN RunRes(st, w, c, "DependencyDoesNotExistError", FALSE)
    ELSE RunRes(st, [w EXCEPT ![st.outs[1].path] = w[st.deps[1].path]],
                c, "none", TRUE)

\* run_stage (not dry): the command executes and either fails or writes
\* its outputs.
run_stage(st, w, c, force, outcome) ==
    IF outcome = "fail"
    THEN RunRes(st, w, c, "StageCmdFailedError", TRUE)
    ELSE RunRes(st, [p \in DOMAIN w |->
                        IF p \in OutPaths(st) THEN outcome ELSE w[p]],
                c, "none", TRUE)

\* Stage.run, after the save: the commit unless no_commit.
RunCommit(r1, s, no_commit, k) ==
    IF s.err # "none" \/ no_commit
    THEN RunRes(s.st, r1.ws, r1.cache, s.err, r1.ran)
    ELSE RunRes(s.st, k.ws, k.cache, k.err, r1.ran)

\* Stage.run, after the command: nothing more when dry (or when the command
\* raised), otherwise save() and commit().
RunSave(r1, dry, no_commit, s) ==
    IF r1.err # "none" \/ dry THEN r1
    ELSE RunCommit(r1, s, no_commit, StageCommit(s.st, r1.ws, r1.cache))

\* Stage.run, after the removal of the outputs: the import, the command, or
\* (locked stage, data source) the verification that the outputs exist.
RunBody(st, w1, c, dry, force, outcome) ==
    IF ~st.locked /\ is_import(st)
    THEN IF dry THEN RunRes(st, w1, c, "none", FALSE)
         ELSE import_sync(st, w1, c, force)
    ELSE IF ~st.locked /\ st.cmd # "none"
    THEN IF dry THEN RunRes(st, w1, c, "none", FALSE)
         ELSE run_stage(st, w1, c, force, outcome)
    ELSE IF ~dry /\ MissingOutputs(st, w1)
    THEN RunRes(st, w1, c, "MissingDataSource", FALSE)
    ELSE RunRes(st, w1, c, "none", FALSE)

RunSteps(r1, dry, no_commit) ==
    RunSave(r1, dry, no_commit, StageSave(r1.st, r1.ws))

\* The removal of Stage.run not asking whether the stage is locked.
RunRemoves_IgnoreLocked(st, dry) ==
    (st.cmd # "none" \/ is_import(st)) /\ ~dry

\* Whether Stage.run removes the outputs first.
RunRemoves(st, dry) ==
    (st.cmd # "none" \/ is_import(st)) /\ ~st.locked /\ ~dry

\* Stage.run(dry, no_commit, force); run_cache only reaches run_stage,
\* where this model has no run-cache to consult.
StageRun(st, w, c, dry, no_commit, force, outcome) ==
    RunSteps(RunBody(st,
                     IF RunRemoves(st, dry) THEN remove_outs(st, w, FALSE) ELSE w,
                     c, dry, force, outcome),
             dry, no_commit)

\* What Stage.reproduce returns after a run: the stage, unless the run raised.
WithRet(r) == r @@ [ret |-> IF r.err = "none" THEN "self" ELSE "raised"]

\* Stage.reproduce when it does not run: it returns None, or raises err.
NoRun(st, w, c, err) ==
    RunRes(st, w, c, err, FALSE)
    @@ [ret |-> IF err = "none" THEN "None" ELSE "raised"]

\* Stage.reproduce running whether or not the stage changed.
StageReproduce_Always(st, w, c, interactive, confirm, force, dry, no_commit, outcome) ==
    IF interactive /\ ~confirm
    THEN NoRun(st, w, c, "DvcException")
    ELSE WithRet(StageRun(st, w, c, dry, no_commit, force, outcome))

\* Stage.reproduce: None when neither forced nor changed; DvcException when
\* the user declines; otherwise the run, and the stage itself.
StageReproduce(st, w, c, interactive, confirm, force, dry, no_commit, outcome) ==
    IF ~(force \/ Changed(st, w, c).changed)
    THEN NoRun(st, w, c, "none")
    ELSE IF interactive /\ ~confirm
    THEN NoRun(st, w, c, "DvcException")
    ELSE WithRet(StageRun(st, w, c, dry, no_commit, force, outcome))

\* Stage._changed_entries: the entries with a recorded checksum that the
\* workspace no longer has.
changed_entries(es, w) ==
    {i \in DOMAIN es : es[i].hash # NoHash /\ workspace_status(es[i], w) # ""}

\* Stage.check_can_commit saving before it asks.
check_can_commit_SaveFirst(st, w, force, confirm) ==
    LET changed == \/ changed_entries(st.deps, w) # {}
                   \/ changed_entries(st.outs, w) # {}
                   \/ changed_stage(st)
    IN  IF ~changed
        THEN [st |-> st, err |-> "none", prompted |-> FALSE, changed |-> FALSE]
        ELSE [st |-> StageSave(st, w).st,
              err |-> IF ~(force \/ confirm) THEN "StageCommitError"
                      ELSE StageSave(st, w).err,
              prompted |-> ~force, changed |-> TRUE]

\* Stage.check_can_commit(force); confirm is the user's answer to the
\* prompt, asked only when force is not given.
check_can_commit(st, w, force, confirm) ==
    LET changed == \/ changed_entries(st.deps, w) # {}
                   \/ changed_entries(st.outs, w) # {}
                   \/ changed_stage(st)
    IN  IF ~changed
        THEN [st |-> st, err |-> "none", prompted |-> FALSE, changed |-> FALSE]
        ELSE IF ~(force \/ confirm)
        THEN [st |-> st, err |-> "StageCommitError", prompted |-> TRUE,
              changed |-> TRUE]
        ELSE [st |-> StageSave(st, w).st, err |-> StageSave(st, w).err,
              prompted |-> ~force, changed |-> TRUE]

\* Stage.update leaving the flag as the reproduce needed it.
StageUpdate_NoRestore(st, w, c, dep_raises, outcome) ==
    IF ~is_import(st)
    THEN NoRun(st, w, c, "StageUpdateError")
         @@ [updated |-> FALSE, locked_in_reproduce |-> st.locked,
             reproduced |-> FALSE]
    ELSE IF dep_raises
    THEN NoRun(st, w, c, "TypeError")
         @@ [updated |-> FALSE, locked_in_reproduce |-> st.locked,
             reproduced |-> FALSE]
    ELSE LET st1 == [st EXCEPT !.locked = FALSE]
             r == StageReproduce(st1, w, c, FALSE, TRUE, FALSE, FALSE, FALSE,
                                 outcome)
         IN  r @@ [updated |-> TRUE, locked_in_reproduce |-> st1.locked,
                   reproduced |-> TRUE]

\* Stage.update(rev): StageUpdateError unless the stage is an import; then
\* deps[0].update(rev=rev), which raises for a dependency whose update takes
\* no rev (dvc/dependency/repo.py) and otherwise changes nothing this model
\* records; then reproduce() with locked cleared, and the flag set back in
\* the finally.
StageUpdate(st, w, c, dep_raises, outcome) ==
    IF ~is_import(st)
    THEN NoRun(st, w, c, "StageUpdateError")
         @@ [updated |-> FALSE, locked_in_reproduce |-> st.locked,
             reproduced |-> FALSE]
    ELSE IF dep_raises
    THEN NoRun(st, w, c, "TypeError")
         @@ [updated |-> FALSE, locked_in_reproduce |-> st.locked,
             reproduced |-> FALSE]
    ELSE LET st1 == [st EXCEPT !.locked = FALSE]
             r == StageReproduce(st1, w, c, FALSE, TRUE, FALSE, FALSE, FALSE,
                                 outcome)
         IN  [r EXCEPT !.st.locked = st.locked]
             @@ [updated |-> TRUE, locked_in_reproduce |-> st1.locked,
                 reproduced |-> TRUE]

\* Stage.status with the "always changed" entry left out for a locked
\* stage.
StageStatus_LockedQuiet(st, w, c, check_updates) ==
    LET show_import == is_import(st) /\ check_updates
        deps_status == {i \in DOMAIN st.deps : DepStatus(st.deps[i], w) # ""}
        outs_status == {i \in DOMAIN st.outs : OutStatus(st.outs[i], w, c) # ""}
    IN  (IF (~st.locked \/ show_import) /\ deps_status # {}
         THEN {"changed deps"} ELSE {})
        \cup (IF outs_status # {} THEN {"changed outs"} ELSE {})
        \cup (IF changed_stage(st)
              THEN {IF st.kind = "pipeline" THEN "changed command"
                    ELSE "changed checksum"}
              ELSE {})
        \cup (IF ~st.locked /\ (is_callback(st) \/ st.always_changed)
              THEN {"always changed"} ELSE {})

\* Stage.status(check_updates): the entries of the list it returns for the
\* stage; the mapping is empty when there is none.  An import is taken to
\* be one from a repository; the other kind shows what check_updates = FALSE
\* shows.
StageStatus(st, w, c, check_updates) ==
    LET show_import == is_import(st) /\ check_updates
        deps_status == {i \in DOMAIN st.deps : DepStatus(st.deps[i], w) # ""}
        outs_status == {i \in DOMAIN st.outs : OutStatus(st.outs[i], w, c) # ""}
    IN  (IF (~st.locked \/ show_import) /\ deps_status # {}
         THEN {"changed deps"} ELSE {})
        \cup (IF outs_status # {} THEN {"changed outs"} ELSE {})
        \cup (IF changed_stage(st)
              THEN {IF st.kind = "pipeline" THEN "changed command"
                    ELSE "changed checksum"}
              ELSE {})
        \cup (IF is_callback(st) \/ st.always_changed
              THEN {"always changed"} ELSE {})

\* Stage._filter_outs: the indices of the outputs that contain or equal
\* filter_info (all of them without a filter_info, written <<>>).
filter_outs(st, filter_info) ==
    {i \in DOMAIN st.outs :
        filter_info = <<>> \/ IsPrefix(st.outs[i].path, filter_info)}

\* What Output.checkout handed back, as Stage.checkout reads it: whether it
\* raised CheckoutError, and the pair (added, modified) of `result or
\* (None, None)`.
checkout_result(res) ==
    [raised   |-> res = "failed",
     added    |-> res \in {"added", "both"},
     modified |-> res \in {"modified", "both"}]

\* The body of the loop of Stage.checkout with added tested first.
checkouts_record_AddedFirst(acc, p, result) ==
    IF result.raised THEN [acc EXCEPT !.failed = @ \cup {p}]
    ELSE IF result.added THEN [acc EXCEPT !.added = @ \cup {p}]
    ELSE IF result.modified THEN [acc EXCEPT !.modified = @ \cup {p}]
    ELSE acc

\* The body of the loop of Stage.checkout: a CheckoutError puts the output
\* under "failed"; otherwise `if modified ... elif added ...`.
checkouts_record(acc, p, result) ==
    IF result.raised THEN [acc EXCEPT !.failed = @ \cup {p}]
    ELSE IF result.modified THEN [acc EXCEPT !.modified = @ \cup {p}]
    ELSE IF result.added THEN [acc EXCEPT !.added = @ \cup {p}]
    ELSE acc

\* Stage.checkout over the filtered outputs from the i-th on, threading the
\* workspace and the result lists; filter_info is handed to each output; a CheckoutError of one output is caught
\* and its path recorded.
RECURSIVE CheckoutFrom(_, _, _, _, _, _, _, _, _)
CheckoutFrom(st, sel, i, w, c, force, relink, filter_info, acc) ==
    IF i > Len(st.outs) THEN acc @@ [ws |-> w]
    ELSE IF i \notin sel
    THEN CheckoutFrom(st, sel, i + 1, w, c, force, relink, filter_info, acc)
    ELSE LET r == OutputCheckout(st.outs[i], w, c, force, relink, filter_info)
             p == st.outs[i].path
         IN  CheckoutFrom(st, sel, i + 1, r.ws, c, force, relink, filter_info,
                checkouts_record(acc, p, checkout_result(r.res)))

\* Stage.checkout reporting every output it attempted as modified.
StageCheckout_ReportAll(st, w, c, force, relink, filter_info) ==
    [CheckoutFrom(st, filter_outs(st, filter_info), 1, w, c, force, relink,
                  filter_info, [failed |-> {}, added |-> {}, modified |-> {}])
        EXCEPT !.modified =
            {st.outs[i].path : i \in filter_outs(st, filter_info)}]

\* Stage.checkout with what each output's checkout hands back given
\* (results[i] for the i-th output) instead of computed: the dictionary it
\* returns and the outputs whose checkout it called.
RECURSIVE CheckoutWithFrom(_, _, _, _, _)
CheckoutWithFrom(st, sel, i, results, acc) ==
    IF i > Len(st.outs) THEN acc
    ELSE IF i \notin sel THEN CheckoutWithFrom(st, sel, i + 1, results, acc)
    ELSE CheckoutWithFrom(st, sel, i + 1, results,
            [checkouts_record(acc, st.outs[i].path, checkout_result(results[i]))
                EXCEPT !.called = @ \cup {i}])

StageCheckoutWith(st, filter_info, results) ==
    CheckoutWithFrom(st, filter_outs(st, filter_info), 1, results,
        [failed |-> {}, added |-> {}, modified |-> {}, called |-> {}])

\* Stage.checkout handing no filter_info to its outputs.
StageCheckout_NoFilterInfo(st, w, c, force, relink, filter_info) ==
    CheckoutFrom(st, filter_outs(st, filter_info), 1, w, c, force, relink,
                 <<>>, [failed |-> {}, added |-> {}, modified |-> {}])

\* Stage.checkout: the dictionary it returns and the workspace it leaves.
StageCheckout(st, w, c, force, relink, filter_info) ==
    CheckoutFrom(st, filter_outs(st, filter_info), 1, w, c, force, relink,
                 filter_info, [failed |-> {}, added |-> {}, modified |-> {}])

\* repo.checkout() without a target, over the active stages from the i-th
\* on (order lists them): each stage is checked out in turn and what
\* Stage.checkout returns is dropped; dropped keeps it for inspection.  The
\* call itself returns None and raises nothing.  (_cleanup_unused_links
\* removes links of paths no active stage owns; every path of this model is
\* owned.)
RECURSIVE RepoCheckoutFrom(_, _, _, _, _, _, _)
RepoCheckoutFrom(S, order, i, w, c, force, dropped) ==
    IF i > Len(order)
    THEN [ret |-> "None", err |-> "none", ws |-> w, dropped |-> dropped]
    ELSE LET r == StageCheckout(S[order[i]], w, c, force, FALSE, <<>>)
         IN  RepoCheckoutFrom(S, order, i + 1, r.ws, c, force,
                [failed   |-> dropped.failed \cup r.failed,
                 added    |-> dropped.added \cup r.added,
                 modified |-> dropped.modified \cup r.modified])

RepoCheckout(S, order, w, c, force) ==
    RepoCheckoutFrom(S, order, 1, w, c, force,
                     [failed |-> {}, added |-> {}, modified |-> {}])

\* Stage.dumpd: the dictionary a stage is dumped as.
dumpd(st) ==
    [md5 |-> st.md5, cmd |-> st.cmd, locked |-> st.locked,
     deps |-> st.deps, outs |-> st.outs, always_changed |-> st.always_changed]

\* stage_dump_eq: the two dumps are equal once the stored digests and the
\* old definition's output checksums are set aside (the new definition has
\* no output checksums yet); dependencies and outputs compare by path, in
\* any order.
stage_dump_eq(old_d, new_d) ==
    /\ old_d.cmd = new_d.cmd
    /\ old_d.locked = new_d.locked
    /\ old_d.always_changed = new_d.always_changed
    /\ Range(old_d.deps) = Range(new_d.deps)
    /\ {[o EXCEPT !.hash = NoHash] : o \in Range(old_d.outs)} = Range(new_d.outs)

\* The result of the cached-stage check: its value, the error it raised,
\* the stage (its dependencies saved or not), the workspace and cache it
\* leaves, and whether the old definition's outputs were committed.
CachedRes(value, err, st, w, c, committed) ==
    [value |-> value, err |-> err, st |-> st, ws |-> w, cache |-> c,
     committed |-> committed]

\* Stage.is_cached, after save_deps: the comparison of the dumps, then the
\* commit of the old definition's outputs.
CachedAfterDeps(st, old, w, c, d, k) ==
    IF d.err
    THEN CachedRes(FALSE, "DependencyDoesNotExistError",
                   [st EXCEPT !.deps = d.es], w, c, FALSE)
    ELSE IF ~stage_dump_eq(dumpd(old), dumpd([st EXCEPT !.deps = d.es]))
    THEN CachedRes(FALSE, "none", [st EXCEPT !.deps = d.es], w, c, FALSE)
    ELSE CachedRes(k.err = "none", k.err, [st EXCEPT !.deps = d.es],
                   k.ws, k.cache, TRUE)

\* Stage.is_cached against the reloaded definition old.
Stage_is_cached(st, old, w, c) ==
    IF changed_outs(old, w, c).changed
    THEN CachedRes(FALSE, "none", st, w, c, FALSE)
    ELSE CachedAfterDeps(st, old, w, c, SaveEntries(st.deps, w),
                         StageCommit(old, w, c))

\* Stage.is_cached / PipelineStage.is_cached; dvcf maps the names of the
\* stages stored in the stage's file to their definitions.
is_cached(st, dvcf, w, c) ==
    IF st.kind = "pipeline" /\ st.name \notin DOMAIN dvcf
    THEN CachedRes(FALSE, "none", st, w, c, FALSE)
    ELSE Stage_is_cached(st, dvcf[st.name], w, c)

\* Stage.can_be_skipped with the callback test dropped.
can_be_skipped_NoCallbackTest(st, dvcf, w, c) ==
    [is_cached(st, dvcf, w, c) EXCEPT !.value = @ /\ ~st.always_changed]

\* Stage.can_be_skipped: is_cached is evaluated first, with its effects.
can_be_skipped(st, dvcf, w, c) ==
    [is_cached(st, dvcf, w, c)
        EXCEPT !.value = @ /\ ~is_callback(st) /\ ~st.always_changed]

\* What create_stage hands back: "stage", "None" or "raised".
Created(ret, r, evaluated) ==
    [ret |-> ret, st |-> r.st, ws |-> r.ws, cache |-> r.cache, err |-> r.err,
     evaluated |-> evaluated, committed |-> r.committed]

CreatedAfterCheck(r) ==
    Created(IF r.err # "none" THEN "raised"
            ELSE IF r.value THEN "None" ELSE "stage", r, TRUE)

\* create_stage without the test for persisted outputs.
create_stage_NoPersistTest(st, dvcf, w, c, run_cache) ==
    IF DOMAIN dvcf # {} /\ run_cache
    THEN CreatedAfterCheck(can_be_skipped(st, dvcf, w, c))
    ELSE Created("stage", CachedRes(FALSE, "none", st, w, c, FALSE), FALSE)

\* create_stage with the stage st built from its arguments: when the file
\* exists and the run-cache is not ignored, a stage that can be skipped is
\* not returned.
create_stage(st, dvcf, w, c, run_cache) ==
    IF /\ DOMAIN dvcf # {}
       /\ ~(~run_cache \/ \E i \in DOMAIN st.outs : st.outs[i].persist)
    THEN CreatedAfterCheck(can_be_skipped(st, dvcf, w, c))
    ELSE Created("stage", CachedRes(FALSE, "none", st, w, c, FALSE), FALSE)

\* repo.run after create_stage: nothing more without a stage; otherwise the
\* stage runs and, unless the run raised, is dumped to its file.
RunCreated(cr, dvcf, r) ==
    IF cr.ret # "stage"
    THEN [created |-> cr, ws |-> cr.ws, cache |-> cr.cache, dvcfile |-> dvcf,
          err |-> cr.err]
    ELSE [created |-> cr, ws |-> r.ws, cache |-> r.cache,
          dvcfile |-> IF r.err = "none"
                      THEN (cr.st.name :> r.st) @@ dvcf ELSE dvcf,
          err |-> r.err]

\* repo.run(**kwargs)
RepoRun(st, dvcf, w, c, run_cache, outcome, cr) ==
    RunCreated(cr, dvcf,
               StageRun(cr.st, cr.ws, cr.cache, FALSE, FALSE, FALSE, outcome))

(***************************************************************************)
(*                        THE REPOSITORY LOCK                              *)
(***************************************************************************)

\* Number of processes working on the repository at once.
NumProcs == 2

Procs == 1..NumProcs

NoProc == 0

\* The repository-level operations of dvc/repo.
RepoOps == {"checkout", "lock", "unlock", "diff", "show"}

\* The operations defined under the @locked decorator of dvc.repo.
Decorated(op) == op \in {"lock", "unlock", "diff", "show"}

\* A process that is in no operation.
Idle == [op |-> "none", at |-> "idle", raised |-> FALSE]

\* No process is in an operation and no one holds the lock.
LockIdle ==
    /\ repoLock = NoProc
    /\ pc = [p \in Procs |-> Idle]

\* No executor exists.
ReproIdle ==
    /\ executors = <<>>
    /\ jobs = 0

\* No link is recorded.
LinksIdle == links = {}

\* No stage object is held for hashing.
HashIdle == hstages = <<>>

\* No ignore file is loaded.
IgnoreIdle == pattern_list = <<>> /\ matched = [op |-> "init"]

\* No filter is built.
FilterIdle ==
    fstree = <<>> /\ ignores_trie_tree = <<>> /\ answer = [op |-> "init"]

(***************************************************************************)
(*                        INDEX AND GRAPH                                  *)
(***************************************************************************)

\* Number of Index objects a run may obtain.
MaxIndices == 3

\* The stage definitions the Index part works over.  Together they hold a
\* three-stage cycle through a directory output (s1, s2, s3), a two-stage
\* cycle (s1, s4) and two owners of one output path (s3, s4).
IndexStages ==
    [s1 |-> MkStage("dvc.yaml", "s1", "pipeline", "cmd",
                    <<Dep(<<"foo">>)>>, <<Out(<<"bar">>, TRUE, FALSE)>>),
     s2 |-> MkStage("dvc.yaml", "s2", "pipeline", "cmd",
                    <<Dep(<<"bar">>)>>, <<Out(<<"d">>, TRUE, FALSE)>>),
     s3 |-> MkStage("dvc.yaml", "s3", "pipeline", "cmd",
                    <<Dep(<<"d", "f">>)>>, <<Out(<<"foo">>, TRUE, FALSE)>>),
     s4 |-> MkStage("dvc.yaml", "s4", "pipeline", "cmd",
                    <<Dep(<<"bar">>)>>, <<Out(<<"foo">>, TRUE, FALSE)>>)]

IndexStageIds == DOMAIN IndexStages

\* Index.__init__: a new Index over a stage set, no derived view cached.
NewIndex(S) == [stages |-> S, graph |-> FALSE, edges |-> {}]

\* build_outs_trie: every output path of the stage set keyed by its
\* segments; two declared outputs that are equal or nested have no single
\* owner.
build_outs_trie(S) ==
    LET entries == UNION {{[path |-> p, stage |-> s] : p \in OutPaths(stages[s])}
                          : s \in S}
    IN  [err  |-> IF \E a, b \in entries : a # b /\ Overlap(a.path, b.path)
                  THEN "AmbiguousOutputOwnerError" ELSE "none",
         outs |-> entries]

\* The producers a dependency path resolves to: the owners of the longest
\* declared output path that is a prefix of (or equal to) the path.
Producers(trie, dep) ==
    {e.stage : e \in {e \in trie.outs :
        /\ IsPrefix(e.path, dep)
        /\ \A e2 \in trie.outs :
              IsPrefix(e2.path, dep) => Len(e2.path) <= Len(e.path)}}

\* The edges consumer -> producer of the graph over a stage set.
GraphEdges(S, trie) ==
    UNION {{<<s, p>> : p \in UNION {Producers(trie, d) : d \in DepPaths(stages[s])}}
           : s \in S}

\* The sequences over S without repetition, of every length from 1.
RECURSIVE Arrangements(_)
Arrangements(S) ==
    IF S = {} THEN {}
    ELSE {<<x>> : x \in S}
         \cup UNION {{<<x>> \o t : t \in Arrangements(S \ {x})} : x \in S}

\* The simple cycles of a graph: each as the list of its nodes.
SimpleCycles(S, edges) ==
    {c \in Arrangements(S) :
        /\ \A i \in 1..(Len(c) - 1) : <<c[i], c[i + 1]>> \in edges
        /\ <<c[Len(c)], c[1]>> \in edges}

\* Index.build_graph handing build_graph an empty outs trie.
Index_build_graph_NoTrie(S, found) ==
    LET edges == GraphEdges(S, [err |-> "none", outs |-> {}])
    IN  [err |-> "none", cycle |-> {}, edges |-> edges]

\* graph.build_graph(stages, outs_trie) with its acyclicity check: the
\* graph, or the error raised.  found is the cycle the search reports.
build_graph(S, trie, found) ==
    LET edges == GraphEdges(S, trie)
    IN  IF SimpleCycles(S, edges) # {}
        THEN [err |-> "CyclicGraphError", cycle |-> Range(found), edges |-> {}]
        ELSE [err |-> "none", cycle |-> {}, edges |-> edges]

\* The cycles the search may report for a stage set (any one of them, the
\* traversal order of a set being unspecified).
CyclesOf(S, trie) ==
    LET cs == SimpleCycles(S, GraphEdges(S, trie))
    IN  IF cs = {} THEN {<<>>} ELSE cs

\* Index.build_graph: the outs trie is built first (its error propagates),
\* then the graph over self.stages.
Index_build_graph(S, found) ==
    LET trie == build_outs_trie(S)
    IN  IF trie.err # "none"
        THEN [err |-> trie.err, cycle |-> {}, edges |-> {}]
        ELSE build_graph(S, trie, found)

IndexFound(S) == CyclesOf(S, build_outs_trie(S))

\* pset.add / remove / discard / update / difference on the stage set.
PsetApply(S, method, T) ==
    CASE method = "add"        -> [err |-> "none", stages |-> S \cup T]
      [] method = "update"     -> [err |-> "none", stages |-> S \cup T]
      [] method = "discard"    -> [err |-> "none", stages |-> S \ T]
      [] method = "difference" -> [err |-> "none", stages |-> S \ T]
      [] method = "remove"     -> IF T \subseteq S
                                  THEN [err |-> "none", stages |-> S \ T]
                                  ELSE [err |-> "KeyError", stages |-> S]

Methods == {"add", "update", "discard", "difference", "remove"}

\* The arguments a method takes: one stage, or (update, difference) an
\* iterable of stages.
MethodArgs(method) ==
    IF method \in {"update", "difference"}
    THEN {T \in SUBSET IndexStageIds : Cardinality(T) <= 2}
    ELSE {{s} : s \in IndexStageIds}

\* The outcome of an Index operation: the error raised ("none": it returned),
\* the stages a cycle error names, and, when the operation built a graph,
\* the stage set it built it over.
ILast(op, err, cycle, built, on) ==
    [op |-> op, err |-> err, cycle |-> cycle, built |-> built, on |-> on]

\* Index.check_graph building the graph whatever the repo's flag says.
check_graph_IgnoreSkip(idx, found) ==
    LET g == Index_build_graph(idx.stages, found)
    IN  [err |-> g.err, cycle |-> g.cycle,
         idx |-> IF g.err = "none"
                 THEN [idx EXCEPT !.graph = TRUE, !.edges = g.edges]
                 ELSE idx]

\* Index.check_graph: builds the graph unless the repo skips graph checks.
check_graph(idx, found) ==
    IF skipChecks THEN [err |-> "none", cycle |-> {}, idx |-> idx]
    ELSE LET g == Index_build_graph(idx.stages, found)
         IN  [err |-> g.err, cycle |-> g.cycle,
              idx |-> IF g.err = "none"
                      THEN [idx EXCEPT !.graph = TRUE, !.edges = g.edges]
                      ELSE idx]

\* Index._mutate storing the new stage set in the receiver.
Index_new_InPlace(idxs, i, idx) == [idxs EXCEPT ![i] = idx]

\* Index._mutate: idx = Index(repo, fs, stages=stages) is a new object,
\* beside the receiver (the i-th) and every Index obtained before.
Index_new(idxs, i, idx) == Append(idxs, idx)

\* Index._mutate(method, *args, check_graphs): a new Index over the changed
\* stage set, graph-checked on request; the receiver is left as it is.
Mutate(i, method, T, check_graphs) ==
    /\ Len(indices) < MaxIndices
    /\ LET r == PsetApply(indices[i].stages, method, T)
       IN  IF r.err # "none"
           THEN /\ ilast' = ILast("mutate", r.err, {}, FALSE, {})
                              @@ [check_graphs |-> check_graphs]
                /\ UNCHANGED indices
           ELSE \E found \in IndexFound(r.stages) :
                LET c == IF check_graphs
                         THEN check_graph(NewIndex(r.stages), found)
                         ELSE [err |-> "none", cycle |-> {},
                               idx |-> NewIndex(r.stages)]
                    built == check_graphs /\ ~skipChecks
                IN  /\ ilast' = ILast("mutate", c.err, c.cycle, built,
                                      IF built THEN r.stages ELSE {})
                                  @@ [check_graphs |-> check_graphs,
                                      result |-> r.stages]
                    /\ indices' = IF c.err = "none"
                                  THEN Index_new(indices, i, c.idx)
                                  ELSE indices
    /\ UNCHANGED <<nonIndexVars, skipChecks>>

\* Index.graph (cached_property): built on first access and cached; an
\* error leaves nothing cached.
GraphAccess(i) ==
    /\ IF indices[i].graph
       THEN /\ ilast' = ILast("graph", "none", {}, FALSE, {})
            /\ UNCHANGED indices
       ELSE \E found \in IndexFound(indices[i].stages) :
            LET g == Index_build_graph(indices[i].stages, found)
            IN  /\ ilast' = ILast("graph", g.err, g.cycle, TRUE, indices[i].stages)
                /\ indices' = IF g.err = "none"
                              THEN [indices EXCEPT ![i].graph = TRUE,
                                                   ![i].edges = g.edges]
                              ELSE indices
    /\ UNCHANGED <<nonIndexVars, skipChecks>>

\* repo._skip_graph_checks is set or cleared by the caller.
SetSkipGraphChecks(b) ==
    /\ skipChecks # b
    /\ skipChecks' = b
    /\ ilast' = ILast("skip", "none", {}, FALSE, {})
    /\ UNCHANGED <<nonIndexVars, indices>>

InitIndex ==
    /\ stages = IndexStages
    /\ ws = <<>>
    /\ cache = <<>>
    /\ dvcfile = NoDvcfile
    /\ envChanges = 0
    /\ last = [op |-> "init"]
    /\ trip = [phase |-> 0, path |-> <<>>, c |-> Absent]
    /\ \E S \in SUBSET IndexStageIds : indices = <<NewIndex(S)>>
    /\ skipChecks = FALSE
    /\ ilast = ILast("init", "none", {}, FALSE, {})
    /\ LockIdle
    /\ ReproIdle
    /\ LinksIdle
    /\ HashIdle
    /\ IgnoreIdle
    /\ FilterIdle

NextIndex ==
    \/ \E i \in DOMAIN indices, m \in Methods, cg \in BOOLEAN :
          \E T \in MethodArgs(m) : Mutate(i, m, T, cg)
    \/ \E i \in DOMAIN indices : GraphAccess(i)
    \/ \E b \in BOOLEAN : SetSkipGraphChecks(b)

SpecIndex == InitIndex /\ [][NextIndex]_vars

(***************************************************************************)
(*                  STAGE OPERATIONS (as actions)                          *)
(***************************************************************************)

\* How many times the environment (the user, other programs) may touch the
\* workspace or the cache in one run.
MaxEnvChanges == 1

NoTrip == [phase |-> 0, path |-> <<>>, c |-> Absent]

\* The progress of a round trip on one output: 1 content written, 2 its
\* stage saved, 3 committed, 4 the output deleted, 5 checked out.  A step
\* continues the trip when it is the next of these and covers the output
\* (paths); any other operation ends it.
TripPhase == [save |-> 2, commit |-> 3, remove |-> 4, checkout |-> 5]

TripWrite(p, c) == [phase |-> 1, path |-> p, c |-> c]

TripStep(op, ok, paths) ==
    IF ok /\ trip.path \in paths /\ trip.phase + 1 = TripPhase[op]
    THEN [trip EXCEPT !.phase = @ + 1]
    ELSE NoTrip

\* The environment writes content c to a workspace path.
EnvWrite(p, c) ==
    /\ ws[p] # c
    /\ ws' = [ws EXCEPT ![p] = c]
    /\ envChanges' = envChanges + 1
    /\ last' = [op |-> "write"]
    /\ UNCHANGED <<stages, cache, dvcfile, nonStageVars>>

\* The environment deletes a workspace path.
EnvRemove(p) ==
    /\ ws[p] # Absent
    /\ ws' = [ws EXCEPT ![p] = Absent]
    /\ envChanges' = envChanges + 1
    /\ last' = [op |-> "remove"]
    /\ UNCHANGED <<stages, cache, dvcfile, nonStageVars>>

\* A cache object is lost (c = Absent) or corrupted (c hashes to another
\* hash).
EnvCacheDamage(h, c) ==
    /\ CacheOk(cache, h)
    /\ IF c = Absent THEN TRUE ELSE Hash(c) # h
    /\ cache' = [cache EXCEPT ![h] = c]
    /\ envChanges' = envChanges + 1
    /\ last' = [op |-> "damage"]
    /\ UNCHANGED <<stages, ws, dvcfile, nonStageVars>>

\* The state a stage operation leaves, given the result r it computed.
SaveApply(sid, r) ==
    /\ stages' = [stages EXCEPT ![sid] = r.st]
    /\ last' = [op |-> "save", sid |-> sid, err |-> r.err]
    /\ UNCHANGED <<ws, cache, dvcfile, envChanges, nonStageVars>>

\* Stage.save()
Save(sid) == SaveApply(sid, StageSave(stages[sid], ws))

CommitApply(sid, r) ==
    /\ ws' = r.ws
    /\ cache' = r.cache
    /\ last' = [op |-> "commit", sid |-> sid, err |-> r.err,
                afterSave |-> last.op = "save" /\ last.err = "none"]
    /\ UNCHANGED <<stages, dvcfile, envChanges, nonStageVars>>

\* Stage.commit()
Commit(sid) == CommitApply(sid, StageCommit(stages[sid], ws, cache))

ReproduceApply(sid, force, dry, r) ==
    /\ stages' = [stages EXCEPT ![sid] = r.st]
    /\ ws' = r.ws
    /\ cache' = r.cache
    /\ last' = [op |-> "reproduce", sid |-> sid, err |-> r.err,
                ret |-> r.ret, force |-> force, dry |-> dry, ran |-> r.ran]
    /\ UNCHANGED <<dvcfile, envChanges, nonStageVars>>

\* Stage.reproduce(interactive, force, dry, no_commit); confirm is the
\* user's answer to the prompt, outcome what the command does when it
\* executes.
Reproduce(sid, interactive, confirm, force, dry, no_commit, outcome) ==
    ReproduceApply(sid, force, dry,
        StageReproduce(stages[sid], ws, cache, interactive, confirm,
                       force, dry, no_commit, outcome))

CheckoutApply(sid, force, relink, filter_info, r) ==
    /\ ws' = r.ws
    /\ last' = [op |-> "checkout", sid |-> sid, err |-> "none",
                failed |-> r.failed, added |-> r.added,
                modified |-> r.modified, force |-> force, relink |-> relink,
                filter |-> filter_info,
                repeat |-> /\ last.op = "checkout"
                           /\ <<last.sid, last.force, last.relink, last.filter>>
                                 = <<sid, force, relink, filter_info>>,
                wrote |-> r.ws # ws]
    /\ UNCHANGED <<stages, cache, dvcfile, envChanges, nonStageVars>>

\* Stage.checkout(force, relink, filter_info)
Checkout(sid, force, relink, filter_info) ==
    CheckoutApply(sid, force, relink, filter_info,
        StageCheckout(stages[sid], ws, cache, force, relink, filter_info))

\* Repo.lock(target, unlock): the stage's locked flag is set or cleared and
\* the stage dumped.
Lock(sid, unlock) ==
    /\ stages[sid].locked # ~unlock
    /\ stages' = [stages EXCEPT ![sid].locked = ~unlock]
    /\ last' = [op |-> "lock", sid |-> sid, err |-> "none"]
    /\ UNCHANGED <<ws, cache, dvcfile, envChanges, nonStageVars>>

\* The stage definitions under test: a data source, callback stages, an
\* import, stages with a command and dependencies, and pipeline entries.
Defined(kind, cmd, deps, outs, ac, cc) ==
    [MkStage("dvc.yaml", "t", kind, cmd, deps, outs)
        EXCEPT !.always_changed = ac, !.cmd_changed = cc]

Dep1 == <<Dep(<<"dep1">>)>>

Dep2 == <<Dep(<<"dep1">>), Dep(<<"dep2">>)>>

Out1 == <<Out(<<"out1">>, TRUE, FALSE)>>

StageDefs ==
    {Defined("single", "none", <<>>, Out1, FALSE, FALSE),
     Defined("single", "cmd", <<>>, Out1, FALSE, FALSE),
     Defined("single", "cmd", <<>>, Out1, TRUE, FALSE),
     Defined("single", "none", Dep1, Out1, FALSE, FALSE),
     Defined("single", "cmd", Dep1, Out1, FALSE, FALSE),
     Defined("single", "cmd", Dep1, Out1, TRUE, FALSE),
     Defined("single", "cmd", Dep2, <<Out(<<"out1">>, FALSE, TRUE)>>, FALSE, FALSE),
     Defined("pipeline", "cmd", Dep1, Out1, FALSE, FALSE),
     Defined("pipeline", "cmd", Dep1, Out1, FALSE, TRUE),
     Defined("pipeline", "cmd", <<>>, Out1, FALSE, FALSE)}

\* The variables of the index part, which the stage operations leave alone.
IndexIdle ==
    /\ indices = <<>>
    /\ skipChecks = FALSE
    /\ ilast = ILast("init", "none", {}, FALSE, {})

\* A freshly defined stage: nothing recorded, every path present in the
\* workspace, the cache empty.
InitStage ==
    /\ \E st \in StageDefs : stages = [t |-> st]
    /\ ws = [p \in DepPaths(stages["t"]) \cup OutPaths(stages["t"]) |-> "c1"]
    /\ cache = [h \in Hashes |-> Absent]
    /\ dvcfile = NoDvcfile
    /\ envChanges = 0
    /\ last = [op |-> "init"]
    /\ trip = NoTrip
    /\ IndexIdle
    /\ LockIdle
    /\ ReproIdle
    /\ LinksIdle
    /\ HashIdle
    /\ IgnoreIdle
    /\ FilterIdle

NextStage ==
    \/ \E p \in DOMAIN ws, c \in Contents :
          (envChanges < MaxEnvChanges /\ EnvWrite(p, c) /\ UNCHANGED trip)
    \/ \E p \in DOMAIN ws :
          (envChanges < MaxEnvChanges /\ EnvRemove(p) /\ UNCHANGED trip)
    \/ \E sid \in DOMAIN stages : (Save(sid) /\ UNCHANGED trip)
    \/ \E sid \in DOMAIN stages : (Commit(sid) /\ UNCHANGED trip)
    \/ \E sid \in DOMAIN stages, interactive, confirm, force, dry,
          no_commit \in BOOLEAN, outcome \in Contents \cup {"fail"} :
          (/\ ~interactive => confirm
           /\ Reproduce(sid, interactive, confirm, force, dry, no_commit, outcome)
           /\ UNCHANGED trip)
    \/ \E sid \in DOMAIN stages, unlock \in BOOLEAN :
          (Lock(sid, unlock) /\ UNCHANGED trip)

SpecStage == InitStage /\ [][NextStage]_vars

(***************************************************************************)
(*          COMMIT CHECK, UPDATE, RUN AND STATUS (as actions)              *)
(***************************************************************************)

\* The state before an operation, kept for what the operation left alone.
Before(sid) == [st |-> stages[sid], ws |-> ws, cache |-> cache]

\* Stage.check_can_commit(force)
CheckCanCommit(sid, force, confirm) ==
    LET r == check_can_commit(stages[sid], ws, force, confirm)
    IN  /\ stages' = [stages EXCEPT ![sid] = r.st]
        /\ last' = [op |-> "check_can_commit", sid |-> sid, err |-> r.err,
                    force |-> force, confirm |-> confirm,
                    prompted |-> r.prompted, changed |-> r.changed,
                    before |-> Before(sid)]
        /\ UNCHANGED <<ws, cache, dvcfile, envChanges, trip, nonStageVars>>

\* Stage.update(rev)
Update(sid, dep_raises, outcome) ==
    LET r == StageUpdate(stages[sid], ws, cache, dep_raises, outcome)
    IN  /\ stages' = [stages EXCEPT ![sid] = r.st]
        /\ ws' = r.ws
        /\ cache' = r.cache
        /\ last' = [op |-> "update", sid |-> sid, err |-> r.err,
                    ret |-> r.ret, ran |-> r.ran, updated |-> r.updated,
                    reproduced |-> r.reproduced,
                    locked_in_reproduce |-> r.locked_in_reproduce,
                    before |-> Before(sid)]
        /\ UNCHANGED <<dvcfile, envChanges, trip, nonStageVars>>

\* Stage.run(dry, no_commit, force)
RunStage(sid, dry, no_commit, force, outcome) ==
    LET r == StageRun(stages[sid], ws, cache, dry, no_commit, force, outcome)
    IN  /\ stages' = [stages EXCEPT ![sid] = r.st]
        /\ ws' = r.ws
        /\ cache' = r.cache
        /\ last' = [op |-> "run", sid |-> sid, err |-> r.err, ran |-> r.ran,
                    dry |-> dry, no_commit |-> no_commit, force |-> force,
                    removed |-> RunRemoves(stages[sid], dry),
                    before |-> Before(sid)]
        /\ UNCHANGED <<dvcfile, envChanges, trip, nonStageVars>>

\* Stage.status(check_updates) and Stage.changed(), one after the other.
Status(sid, check_updates) ==
    /\ last' = [op |-> "status", sid |-> sid, err |-> "none",
                check_updates |-> check_updates,
                status |-> StageStatus(stages[sid], ws, cache, check_updates),
                changed |-> Changed(stages[sid], ws, cache).changed]
    /\ UNCHANGED <<stages, ws, cache, dvcfile, envChanges, trip, nonStageVars>>

NextOps ==
    \/ \E p \in DOMAIN ws, c \in Contents :
          (envChanges < MaxEnvChanges /\ EnvWrite(p, c) /\ UNCHANGED trip)
    \/ \E p \in DOMAIN ws :
          (envChanges < MaxEnvChanges /\ EnvRemove(p) /\ UNCHANGED trip)
    \/ \E sid \in DOMAIN stages : (Save(sid) /\ UNCHANGED trip)
    \/ \E sid \in DOMAIN stages : (Commit(sid) /\ UNCHANGED trip)
    \/ \E sid \in DOMAIN stages, unlock \in BOOLEAN :
          (Lock(sid, unlock) /\ UNCHANGED trip)
    \/ \E sid \in DOMAIN stages, force, confirm \in BOOLEAN :
          CheckCanCommit(sid, force, confirm)
    \/ \E sid \in DOMAIN stages, dep_raises \in BOOLEAN,
          outcome \in Contents \cup {"fail"} : Update(sid, dep_raises, outcome)
    \/ \E sid \in DOMAIN stages, dry, no_commit, force \in BOOLEAN,
          outcome \in Contents \cup {"fail"} :
          RunStage(sid, dry, no_commit, force, outcome)
    \/ \E sid \in DOMAIN stages, check_updates \in BOOLEAN :
          Status(sid, check_updates)

SpecOps == InitStage /\ [][NextOps]_vars

(***************************************************************************)
(*                      CHECKOUT (as actions)                              *)
(***************************************************************************)

\* How many times the environment may touch the workspace or the cache in
\* one run of the checkout specification.
MaxDisturbances == 2

\* The order in which repo.checkout() meets the active stages.
StageOrder == <<"a", "b">>

RepoCheckoutApply(force, r) ==
    /\ ws' = r.ws
    /\ last' = [op |-> "repo_checkout", err |-> r.err, ret |-> r.ret,
                failed |-> r.dropped.failed, added |-> r.dropped.added,
                modified |-> r.dropped.modified, force |-> force,
                repeat |-> last.op = "repo_checkout" /\ last.force = force,
                wrote |-> r.ws # ws]
    /\ UNCHANGED <<stages, cache, dvcfile, envChanges, nonStageVars>>

\* repo.checkout(force)
RepoCheckoutAll(force) ==
    RepoCheckoutApply(force, RepoCheckout(stages, StageOrder, ws, cache, force))

\* The paths of all the outputs of the stages.
AllOutPaths == UNION {OutPaths(stages[sid]) : sid \in DOMAIN stages}

\* Two tracked data sources, a with two outputs and b with one; nothing is
\* recorded yet, every path is present, the cache is empty.
InitCheckout ==
    /\ stages =
          [a |-> MkStage("a.dvc", "a", "single", "none", <<>>,
                         <<Out(<<"o1">>, TRUE, FALSE), Out(<<"o2">>, TRUE, FALSE)>>),
           b |-> MkStage("b.dvc", "b", "single", "none", <<>>,
                         <<Out(<<"o3">>, TRUE, FALSE)>>)]
    /\ ws = (<<"o1">> :> "c1") @@ (<<"o2">> :> "c2") @@ (<<"o3">> :> "c1")
    /\ cache = [h \in Hashes |-> Absent]
    /\ dvcfile = NoDvcfile
    /\ envChanges = 0
    /\ last = [op |-> "init"]
    /\ trip = NoTrip
    /\ IndexIdle
    /\ LockIdle
    /\ ReproIdle
    /\ LinksIdle
    /\ HashIdle
    /\ IgnoreIdle
    /\ FilterIdle

NextCheckout ==
    \/ \E p \in DOMAIN ws, c \in Contents :
          (/\ envChanges < MaxDisturbances
           /\ EnvWrite(p, c)
           /\ trip' = TripWrite(p, c))
    \/ \E p \in DOMAIN ws :
          (/\ envChanges < MaxDisturbances
           /\ EnvRemove(p)
           /\ trip' = TripStep("remove", TRUE, {p}))
    \/ \E h \in Hashes, c \in Contents \cup {Absent} :
          (/\ envChanges < MaxDisturbances
           /\ EnvCacheDamage(h, c)
           /\ trip' = NoTrip)
    \/ \E sid \in DOMAIN stages :
          (/\ Save(sid)
           /\ trip' = TripStep("save", last'.err = "none", OutPaths(stages[sid])))
    \/ \E sid \in DOMAIN stages :
          (/\ Commit(sid)
           /\ trip' = TripStep("commit", last'.err = "none", OutPaths(stages[sid])))
    \/ \E sid \in DOMAIN stages, force, relink \in BOOLEAN :
          \E f \in {<<>>} \cup OutPaths(stages[sid]) :
             (/\ Checkout(sid, force, relink, f)
              /\ trip' = TripStep("checkout", TRUE,
                            {stages[sid].outs[i].path :
                                i \in filter_outs(stages[sid], f)}))
    \/ \E force \in BOOLEAN :
          (/\ RepoCheckoutAll(force)
           /\ trip' = TripStep("checkout", TRUE, AllOutPaths))

SpecCheckout == InitCheckout /\ [][NextCheckout]_vars

(***************************************************************************)
(*                    DEFINING STAGES (as actions)                         *)
(***************************************************************************)

\* The stage definitions a caller may propose: the same stage t with
\* another command, without dependencies, always_changed, or with a
\* persisted output, and a second stage u of the same file.
Proposal(kind, name, cmd, deps, outs, ac) ==
    [MkStage("dvc.yaml", name, kind, cmd, deps, outs)
        EXCEPT !.always_changed = ac]

Proposals(kind) ==
    {Proposal(kind, "t", "cmd", Dep1, Out1, FALSE),
     Proposal(kind, "t", "cmd2", Dep1, Out1, FALSE),
     Proposal(kind, "t", "cmd", <<>>, Out1, FALSE),
     Proposal(kind, "t", "cmd", Dep1, Out1, TRUE),
     Proposal(kind, "t", "cmd", Dep1, <<Out(<<"out1">>, TRUE, TRUE)>>, FALSE)}
    \cup (IF kind = "pipeline"
          THEN {Proposal(kind, "u", "cmd", Dep1,
                         <<Out(<<"out2">>, TRUE, FALSE)>>, FALSE)}
          ELSE {})

RunApply(st, run_cache, r) ==
    /\ ws' = r.ws
    /\ cache' = r.cache
    /\ dvcfile' = [dvcfile EXCEPT !.stages = r.dvcfile]
    /\ last' = [op |-> "run", proposed |-> st, run_cache |-> run_cache,
                ret |-> r.created.ret, err |-> r.err,
                evaluated |-> r.created.evaluated,
                committed |-> r.created.committed]
    /\ UNCHANGED <<stages, envChanges, trip, nonStageVars>>

\* repo.run: the stage is created from the arguments, run and dumped.
Run(st, run_cache, outcome) ==
    RunApply(st, run_cache,
             RepoRun(st, dvcfile.stages, ws, cache, run_cache, outcome,
                     create_stage(st, dvcfile.stages, ws, cache, run_cache)))

\* A repository with no stage defined yet; kind says whether its stages
\* live in single-stage files or in a pipeline file.
InitCreate ==
    /\ \E kind \in {"single", "pipeline"} :
          dvcfile = [kind |-> kind, stages |-> <<>>]
    /\ last = [op |-> "init"]
    /\ stages = <<>>
    /\ ws = (<<"dep1">> :> "c1") @@ (<<"out1">> :> Absent) @@ (<<"out2">> :> Absent)
    /\ cache = [h \in Hashes |-> Absent]
    /\ envChanges = 0
    /\ trip = NoTrip
    /\ IndexIdle
    /\ LockIdle
    /\ ReproIdle
    /\ LinksIdle
    /\ HashIdle
    /\ IgnoreIdle
    /\ FilterIdle

NextCreate ==
    \/ \E p \in DOMAIN ws, c \in Contents :
          (/\ envChanges < MaxEnvChanges
           /\ EnvWrite(p, c)
           /\ UNCHANGED trip)
    \/ \E p \in DOMAIN ws :
          (/\ envChanges < MaxEnvChanges
           /\ EnvRemove(p)
           /\ UNCHANGED trip)
    \/ \E h \in Hashes, c \in Contents \cup {Absent} :
          (/\ envChanges < MaxEnvChanges
           /\ EnvCacheDamage(h, c)
           /\ UNCHANGED trip)
    \/ \E st \in Proposals(dvcfile.kind), run_cache \in BOOLEAN,
          outcome \in Contents \cup {"fail"} :
          Run(st, run_cache, outcome)

SpecCreate == InitCreate /\ [][NextCreate]_vars

(***************************************************************************)
(*          REPOSITORY OPERATIONS OF SEVERAL PROCESSES (as actions)        *)
(***************************************************************************)

\* The @locked wrapper (and the bare call of an operation defined without
\* it): what the lock is once the operation's body starts, and once the
\* operation has left, by returning or by raising.
locked_enter(op, p, lk) == IF Decorated(op) THEN p ELSE lk

\* locked_exit releasing the lock only when the body returned.
locked_exit_OnReturnOnly(op, p, lk, raised) ==
    IF Decorated(op) /\ ~raised THEN NoProc ELSE lk

locked_exit(op, p, lk, raised) == IF Decorated(op) THEN NoProc ELSE lk

\* The stage file after the body of lock(target, unlock): the flag is set
\* and the stage dumped; the other operations leave the stage file alone.
BodyStages(op, S) ==
    IF op \in {"lock", "unlock"}
    THEN [S EXCEPT !["t"].locked = (op = "lock")]
    ELSE S

\* A process calls a repository operation.
Call(p, op) ==
    /\ pc[p].at = "idle"
    /\ pc' = [pc EXCEPT ![p] = [op |-> op, at |-> "called", raised |-> FALSE]]
    /\ UNCHANGED <<repoLock, stageVars, nonLockVars>>

\* The body starts: at once for an operation defined without the wrapper,
\* once the lock is free and taken for one defined under it.
Enter(p) ==
    /\ pc[p].at = "called"
    /\ Decorated(pc[p].op) => repoLock = NoProc
    /\ repoLock' = locked_enter(pc[p].op, p, repoLock)
    /\ pc' = [pc EXCEPT ![p].at = "body"]
    /\ UNCHANGED <<stageVars, nonLockVars>>

\* The body runs to its end: it returns, or it raises.
Body(p, raised) ==
    /\ pc[p].at = "body"
    /\ pc' = [pc EXCEPT ![p].at = "exit", ![p].raised = raised]
    /\ stages' = IF raised THEN stages ELSE BodyStages(pc[p].op, stages)
    /\ UNCHANGED <<repoLock, ws, cache, dvcfile, envChanges, last, trip,
                   nonLockVars>>

\* The operation leaves, through the wrapper if it has one.
Leave(p) ==
    /\ pc[p].at = "exit"
    /\ repoLock' = locked_exit(pc[p].op, p, repoLock, pc[p].raised)
    /\ pc' = [pc EXCEPT ![p] = Idle]
    /\ UNCHANGED <<stageVars, nonLockVars>>

\* One stage in its stage file, and no process in an operation.
InitLock ==
    /\ stages = [t |-> MkStage("dvc.yaml", "t", "pipeline", "cmd", Dep1, Out1)]
    /\ ws = [p \in {<<"dep1">>, <<"out1">>} |-> "c1"]
    /\ cache = [h \in Hashes |-> Absent]
    /\ dvcfile = NoDvcfile
    /\ envChanges = 0
    /\ last = [op |-> "init"]
    /\ trip = NoTrip
    /\ IndexIdle
    /\ LockIdle
    /\ ReproIdle
    /\ LinksIdle
    /\ HashIdle
    /\ IgnoreIdle
    /\ FilterIdle

NextLock ==
    \/ \E p \in Procs, op \in RepoOps : Call(p, op)
    \/ \E p \in Procs : Enter(p)
    \/ \E p \in Procs, raised \in BOOLEAN : Body(p, raised)
    \/ \E p \in Procs : Leave(p)

SpecLock == InitLock /\ [][NextLock]_vars

(***************************************************************************)
(*            REPRODUCING A PIPELINE, IN EXECUTORS (as actions)            *)
(***************************************************************************)

\* Number of experiment executors, and the largest pool they may run in.
NumExecutors == 2

MaxJobs == 2

Executors == 1..NumExecutors

\* A pipeline a -> b (b reads what a writes) and a stage c beside it.
ReproDefs ==
    [a |-> MkStage("dvc.yaml", "a", "pipeline", "cp",
                   <<Dep(<<"dep1">>)>>, <<Out(<<"o1">>, TRUE, FALSE)>>),
     b |-> MkStage("dvc.yaml", "b", "pipeline", "cp",
                   <<Dep(<<"o1">>)>>, <<Out(<<"o2">>, TRUE, FALSE)>>),
     c |-> MkStage("dvc.yaml", "c", "pipeline", "cp",
                   <<Dep(<<"dep2">>)>>, <<Out(<<"o3">>, TRUE, FALSE)>>)]

\* What a stage's command writes: here each command copies the stage's
\* dependency to its output.
cmd_outcome(st, w) ==
    IF w[st.deps[1].path] = Absent THEN "fail" ELSE w[st.deps[1].path]

\* The orders in which a reproduce may visit the stages: every stage once,
\* each after the stages that produce its dependencies.
TopoOrders_Any(S, edges) ==
    {o \in Arrangements(S) : Len(o) = Cardinality(S)}

TopoOrders(S, edges) ==
    {o \in Arrangements(S) :
        /\ Len(o) = Cardinality(S)
        /\ \A i, j \in DOMAIN o : <<o[i], o[j]>> \in edges => j < i}

\* repo.reproduce over the stages of order from the k-th on: each stage's
\* reproduce() is called once the one before it has returned.
RECURSIVE ReproduceFrom(_, _, _, _, _)
ReproduceFrom(S, order, k, w, c) ==
    IF k > Len(order) THEN [stages |-> S, ws |-> w, cache |-> c]
    ELSE LET r == StageReproduce(S[order[k]], w, c, FALSE, FALSE, FALSE,
                                 FALSE, FALSE, cmd_outcome(S[order[k]], w))
         IN  ReproduceFrom([S EXCEPT ![order[k]] = r.st], order, k + 1,
                           r.ws, r.cache)

\* The committed baseline: the pipeline reproduced once over its inputs.
Baseline ==
    ReproduceFrom(ReproDefs, <<"a", "b", "c">>, 1,
                  [p \in {<<"dep1">>, <<"dep2">>, <<"o1">>, <<"o2">>, <<"o3">>} |->
                      IF p \in {<<"dep1">>, <<"dep2">>} THEN "c1" ELSE Absent],
                  [h \in Hashes |-> Absent])

\* LocalExecutor.__init__: a copy of the experiment's tree in a directory
\* of its own; the experiment's change is the content of dep1.
LocalExecutor(base, param) ==
    [at |-> "queued", order |-> <<>>, done |-> 0, running |-> FALSE,
     stages |-> base.stages, ws |-> [base.ws EXCEPT ![<<"dep1">>] = param]]

\* The executors that a worker of the pool is running.
ActiveExecutors == {e \in Executors : executors[e].at = "active"}

\* ThreadPoolExecutor(max_workers=jobs) with no limit on its workers.
workers_free_Unbounded(active, max_workers) == TRUE

\* ThreadPoolExecutor(max_workers=jobs): a worker is free for one more.
workers_free(active, max_workers) == Cardinality(active) < max_workers

\* A worker takes a submitted executor up: its repository is reproduced,
\* the stages visited in a topological order of the graph.
ExecStart(e, order) ==
    /\ executors[e].at = "queued"
    /\ workers_free(ActiveExecutors, jobs)
    /\ executors' = [executors EXCEPT ![e].at = "active", ![e].order = order]
    /\ UNCHANGED <<stageVars, jobs, nonReproVars>>

\* The next stage's reproduce() is called: it decides whether the stage
\* changed; an unchanged stage returns at once, a changed one starts its
\* command.
StageBegin(e) ==
    /\ executors[e].at = "active"
    /\ ~executors[e].running
    /\ executors[e].done < Len(executors[e].order)
    /\ LET x  == executors[e]
           st == x.stages[x.order[x.done + 1]]
       IN  executors' =
              IF Changed(st, x.ws, cache).changed
              THEN [executors EXCEPT ![e].running = TRUE]
              ELSE [executors EXCEPT ![e].done = @ + 1]
    /\ UNCHANGED <<stageVars, jobs, nonReproVars>>

\* The executor e after the run r of its stage sid ended.
AfterRun(x, sid, r) ==
    [x EXCEPT !.running = FALSE,
              !.stages = [@ EXCEPT ![sid] = r.st],
              !.ws = r.ws,
              !.done = IF r.err = "none" THEN @ + 1 ELSE @,
              !.at = IF r.err = "none" THEN @ ELSE "failed"]

\* The running command exits: the stage is saved and committed, and its
\* reproduce() returns (or raises, which ends the executor's reproduce).
StageEnd(e) ==
    /\ executors[e].running
    /\ LET x   == executors[e]
           sid == x.order[x.done + 1]
           r   == StageRun(x.stages[sid], x.ws, cache, FALSE, FALSE, FALSE,
                           cmd_outcome(x.stages[sid], x.ws))
       IN  /\ executors' = [executors EXCEPT ![e] = AfterRun(x, sid, r)]
           /\ cache' = r.cache
    /\ UNCHANGED <<stages, ws, dvcfile, envChanges, last, trip, jobs,
                   nonReproVars>>

\* The executor's reproduce has visited every stage and returns.
ExecFinish(e) ==
    /\ executors[e].at = "active"
    /\ ~executors[e].running
    /\ executors[e].done = Len(executors[e].order)
    /\ executors' = [executors EXCEPT ![e].at = "done"]
    /\ UNCHANGED <<stageVars, jobs, nonReproVars>>

\* The baseline repository, and one executor per queued experiment.
InitRepro ==
    /\ stages = Baseline.stages
    /\ ws = Baseline.ws
    /\ cache = Baseline.cache
    /\ dvcfile = NoDvcfile
    /\ envChanges = 0
    /\ last = [op |-> "init"]
    /\ trip = NoTrip
    /\ executors \in [Executors -> {LocalExecutor(Baseline, c) : c \in Contents}]
    /\ jobs \in 1..MaxJobs
    /\ IndexIdle
    /\ LockIdle
    /\ LinksIdle
    /\ HashIdle
    /\ IgnoreIdle
    /\ FilterIdle

NextRepro ==
    \/ \E e \in Executors :
          \E order \in TopoOrders(DOMAIN stages,
                                  GraphEdges(DOMAIN stages,
                                             build_outs_trie(DOMAIN stages))) :
             ExecStart(e, order)
    \/ \E e \in Executors : StageBegin(e)
    \/ \E e \in Executors : StageEnd(e)
    \/ \E e \in Executors : ExecFinish(e)

SpecRepro == InitRepro /\ [][NextRepro]_vars

(***************************************************************************)
(*        REPOSITORY CHECKOUT WITH TARGETS AND UNUSED LINKS (as actions)   *)
(***************************************************************************)

\* No target given.
NoTarget == <<>>

\* Three tracked data sources: a in directory d, c in directory e, b at
\* the root; each stage file sits beside its output.
LinkDefs ==
    [a |-> MkStage(<<"d", "a.dvc">>, "a", "single", "none", <<>>,
                   <<Out(<<"d", "o1">>, TRUE, FALSE)>>),
     b |-> MkStage(<<"b.dvc">>, "b", "single", "none", <<>>,
                   <<Out(<<"o2">>, TRUE, FALSE)>>),
     c |-> MkStage(<<"e", "c.dvc">>, "c", "single", "none", <<>>,
                   <<Out(<<"e", "o3">>, TRUE, FALSE)>>)]

LinkOrder == <<"a", "b", "c">>

LinkWs == (<<"d", "o1">> :> "c1") @@ (<<"o2">> :> "c2") @@ (<<"e", "o3">> :> "c1")

\* The stages once added: saved over the workspace.
LinkAdded == [s \in DOMAIN LinkDefs |-> StageSave(LinkDefs[s], LinkWs).st]

\* The cache once the added stages are committed.
LinkCache ==
    LET ca == StageCommit(LinkAdded["a"], LinkWs, [h \in Hashes |-> Absent]).cache
        cb == StageCommit(LinkAdded["b"], LinkWs, ca).cache
    IN  StageCommit(LinkAdded["c"], LinkWs, cb).cache

\* repo.active_stages(from_directory): the stages whose stage file lies
\* under the directory (the repository root when none is given).
active_stages(S, from_directory) ==
    {s \in DOMAIN S : IsPrefix(from_directory, S[s].file)}

\* repo.collect(target): the stage of the stage file target.
collect(S, target) == {s \in DOMAIN S : S[s].file = target}

\* state.remove_unused_links(used): every recorded link whose path is not
\* in used is deleted from the workspace and from the record.
remove_unused_links(used, w, lnk) ==
    [ws |-> [p \in DOMAIN w |-> IF p \in lnk \ used THEN Absent ELSE w[p]],
     links |-> lnk \cap used,
     removed |-> lnk \ used]

\* _cleanup_unused_links(all_stages)
cleanup_unused_links(S, all_stages, w, lnk) ==
    remove_unused_links(UNION {OutPaths(S[s]) : s \in all_stages}, w, lnk)

\* checkout taking the targeted stages as all_stages.
checkout_all_stages_Targeted(S, target, recursive) ==
    IF target # NoTarget /\ ~recursive
    THEN collect(S, target)
    ELSE active_stages(S, target)

\* checkout: all_stages, from which the paths in use are computed.
checkout_all_stages(S, target, recursive) ==
    IF target # NoTarget /\ ~recursive
    THEN active_stages(S, NoTarget)
    ELSE active_stages(S, target)

\* checkout: stages, the stages that are checked out.
checkout_stages(S, target, recursive) ==
    IF target # NoTarget /\ ~recursive
    THEN collect(S, target)
    ELSE active_stages(S, target)

\* checkout, once all_stages and stages are known: the unused links are
\* removed, then each stage is checked out.
CheckoutCleaned(S, all_stages, sel, cl, c, force) ==
    [err |-> "none", all_stages |-> all_stages, stages |-> sel,
     removed |-> cl.removed, links |-> cl.links, afterCleanup |-> cl.ws,
     co |-> RepoCheckout(S, SelectSeq(LinkOrder, LAMBDA s : s \in sel),
                         cl.ws, c, force)]

\* repo.checkout(target, force=force, recursive=recursive)
repo_checkout(S, target, recursive, w, c, lnk, force) ==
    IF target # NoTarget /\ ~recursive /\ collect(S, target) = {}
    THEN [err |-> "DvcException", all_stages |-> {}, stages |-> {},
          removed |-> {}, links |-> lnk, afterCleanup |-> w,
          co |-> [ws |-> w, dropped |-> [failed |-> {}, added |-> {},
                                         modified |-> {}]]]
    ELSE CheckoutCleaned(S, checkout_all_stages(S, target, recursive),
                         checkout_stages(S, target, recursive),
                         cleanup_unused_links(
                             S, checkout_all_stages(S, target, recursive),
                             w, lnk),
                         c, force)

CheckoutTargetApply(target, recursive, r) ==
    /\ ws' = r.co.ws
    /\ links' = r.links \cup r.co.dropped.added \cup r.co.dropped.modified
    /\ last' = [op |-> "checkout_target", target |-> target,
                recursive |-> recursive, err |-> r.err,
                all_stages |-> r.all_stages, stages |-> r.stages,
                removed |-> r.removed, afterCleanup |-> r.afterCleanup,
                failed |-> r.co.dropped.failed]
    /\ UNCHANGED <<stages, cache, dvcfile, envChanges, trip, nonLinkVars>>

CheckoutTarget(target, recursive, force) ==
    CheckoutTargetApply(target, recursive,
        repo_checkout(stages, target, recursive, ws, cache, links, force))

\* The user deletes a stage file: its stage is no longer active, its
\* output stays where it is.
RemoveStageFile(sid) ==
    /\ stages' = [s \in DOMAIN stages \ {sid} |-> stages[s]]
    /\ last' = [op |-> "remove_stage", sid |-> sid]
    /\ UNCHANGED <<ws, cache, dvcfile, envChanges, trip, links, nonLinkVars>>

\* The targets a caller may name: a stage file, or a directory.
StageFiles == {LinkDefs[s].file : s \in DOMAIN LinkDefs}

Directories == {<<"d">>, <<"e">>}

\* Every stage added and committed, every output a recorded link.
InitLinks ==
    /\ stages = LinkAdded
    /\ ws = LinkWs
    /\ cache = LinkCache
    /\ links = DOMAIN LinkWs
    /\ dvcfile = NoDvcfile
    /\ envChanges = 0
    /\ last = [op |-> "init"]
    /\ trip = NoTrip
    /\ IndexIdle
    /\ LockIdle
    /\ ReproIdle
    /\ HashIdle
    /\ IgnoreIdle
    /\ FilterIdle

NextLinks ==
    \/ \E p \in DOMAIN ws :
          (/\ envChanges < MaxEnvChanges
           /\ EnvRemove(p)
           /\ UNCHANGED trip)
    \/ \E sid \in DOMAIN stages : RemoveStageFile(sid)
    \/ \E force \in BOOLEAN : CheckoutTarget(NoTarget, FALSE, force)
    \/ \E target \in StageFiles, force \in BOOLEAN :
          CheckoutTarget(target, FALSE, force)
    \/ \E target \in Directories, force \in BOOLEAN :
          CheckoutTarget(target, TRUE, force)

SpecLinks == InitLinks /\ [][NextLinks]_vars

(***************************************************************************)
(*              CHECKOUT OF A DIRECTORY OUTPUT (as actions)                *)
(***************************************************************************)

DirRoot == <<"data">>

\* The paths under the root that the workspace may hold: the tracked
\* files and two untracked ones.
DirPaths ==
    {<<"data", "f1">>, <<"data", "sub", "f2">>, <<"data", "x">>,
     <<"data", "sub", "y">>}

\* The filter_info a caller may give: none, the root, a subtree, a file.
DirFilters == {<<>>, <<"data">>, <<"data", "sub">>, <<"data", "f1">>}

\* The directory added and committed: its manifest recorded and stored in
\* the cache with the objects of its files.
InitDir ==
    /\ stages = [t |-> [MkStage("data.dvc", "t", "single", "none", <<>>,
                                <<Out(DirRoot, TRUE, FALSE)>>)
                           EXCEPT !.outs[1].hash = "hd"]]
    /\ ws = [p \in DirPaths |->
                IF p = <<"data", "f1">> THEN "c1"
                ELSE IF p = <<"data", "sub", "f2">> THEN "c2" ELSE Absent]
    /\ cache = ("h1" :> "c1") @@ ("h2" :> "c2") @@ ("hd" :> "m1")
    /\ dvcfile = NoDvcfile
    /\ envChanges = 0
    /\ last = [op |-> "init"]
    /\ trip = NoTrip
    /\ IndexIdle
    /\ LockIdle
    /\ ReproIdle
    /\ LinksIdle
    /\ HashIdle
    /\ IgnoreIdle
    /\ FilterIdle

NextDir ==
    \/ \E p \in DOMAIN ws, c \in Contents :
          (/\ envChanges < MaxDisturbances
           /\ EnvWrite(p, c)
           /\ UNCHANGED trip)
    \/ \E p \in DOMAIN ws :
          (/\ envChanges < MaxDisturbances
           /\ EnvRemove(p)
           /\ UNCHANGED trip)
    \/ \E h \in Hashes, c \in Contents \cup {Absent} :
          (/\ envChanges < MaxDisturbances
           /\ EnvCacheDamage(h, c)
           /\ UNCHANGED trip)
    \/ \E force, relink \in BOOLEAN, f \in DirFilters :
          (/\ Checkout("t", force, relink, f)
           /\ UNCHANGED trip)

SpecDir == InitDir /\ [][NextDir]_vars

(***************************************************************************)
(*        Stage.checkout OVER ANY RESULTS OF ITS OUTPUTS' CHECKOUTS        *)
(***************************************************************************)

\* What one output's checkout hands back: None or (False, False), a raised
\* CheckoutError, (True, False), (False, True), (True, True).
CheckoutResults == {"none", "failed", "added", "modified", "both"}

ReportOuts ==
    <<Out(<<"data">>, TRUE, FALSE), Out(<<"o1">>, TRUE, FALSE),
      Out(<<"o2">>, TRUE, FALSE)>>

\* No filter, an output, a path inside an output, a path in no output.
ReportFilters ==
    {<<>>, <<"data">>, <<"data", "f1">>, <<"o1">>, <<"zz">>}

CheckoutWith(sid, filter_info, results) ==
    LET r == StageCheckoutWith(stages[sid], filter_info, results)
    IN  /\ last' = [op |-> "checkout_with", sid |-> sid, err |-> "none",
                    filter |-> filter_info, results |-> results,
                    failed |-> r.failed, added |-> r.added,
                    modified |-> r.modified, called |-> r.called]
        /\ UNCHANGED <<stages, ws, cache, dvcfile, envChanges, trip,
                       nonStageVars>>

InitReport ==
    /\ stages = [t |-> MkStage("t.dvc", "t", "single", "none", <<>>, ReportOuts)]
    /\ ws = [p \in OutPaths(stages["t"]) |-> "c1"]
    /\ cache = [h \in Hashes |-> Absent]
    /\ dvcfile = NoDvcfile
    /\ envChanges = 0
    /\ last = [op |-> "init"]
    /\ trip = NoTrip
    /\ IndexIdle
    /\ LockIdle
    /\ ReproIdle
    /\ LinksIdle
    /\ HashIdle
    /\ IgnoreIdle
    /\ FilterIdle

NextReport ==
    \E f \in ReportFilters, results \in [DOMAIN ReportOuts -> CheckoutResults] :
        CheckoutWith("t", f, results)

SpecReport == InitReport /\ [][NextReport]_vars

\* ------------------------------------------------------------------
\* THE DETERMINISTIC HASH OF AN INDEX
\* ------------------------------------------------------------------

\* How many stage objects the hashed Index holds at most.
MaxHashStages == 2

\* stage.md5 of a stage that carries no stored digest.
NoDigest == "none"

\* The digests a stage file can carry, and the definitions a stage can
\* have; compute_md5 of a definition is the digest of that definition.
Digests == {"d1", "d2"}

Definitions == {"def1", "def2"}

\* Characters, paths of stage files and stage names; a path may hold
\* colons, a stage name holds no punctuation but "_" and "-".
HashPaths == {<<"a">>, <<"b">>, <<"a", ":", ":", "b">>}

HashNames == {<<>>, <<"b">>}

HashStageObjects ==
    [path : HashPaths, name : HashNames,
     md5 : Digests \cup {NoDigest}, def : Definitions]

\* Stage.compute_md5: the digest of the stage's present definition.
Stage_compute_md5(st) == IF st.def = "def1" THEN "d1" ELSE "d2"

\* The code point order of the characters in use.
Ord(ch) == CASE ch = ":" -> 58 [] ch = "a" -> 97 [] ch = "b" -> 98

\* Python's ordering of strings: by code point, a proper prefix first.
StrLess(x, y) ==
    \E k \in 1..(Len(y)) :
        /\ \A j \in 1..(k - 1) : j <= Len(x) /\ x[j] = y[j]
        /\ \/ Len(x) = k - 1
           \/ Len(x) >= k /\ Ord(x[k]) < Ord(y[k])

\* stage_kv: key = "::".join([path_in_repo, name]), value = the stored
\* digest, or the computed one when none is stored.
stage_kv(st) ==
    [key |-> st.path \o <<":", ":">> \o st.name,
     value |-> IF st.md5 # NoDigest THEN st.md5 ELSE Stage_compute_md5(st)]

\* dict(map(stage_kv, self)): for a key seen twice the later value stays.
RECURSIVE DictOf(_, _)
DictOf(seq, k) ==
    IF k = 0
    THEN <<>>
    ELSE LET kv == stage_kv(seq[k])
             before == DictOf(seq, k - 1)
             kept == SelectSeq(before, LAMBDA e : e.key # kv.key)
         IN  IF Len(kept) = Len(before)
             THEN Append(before, kv)
             ELSE [i \in 1..Len(before) |->
                      IF before[i].key = kv.key THEN kv ELSE before[i]]

\* json.dumps(d) writing the items in the order of the dict.
json_dumps_Unsorted(d) == d

\* json.dumps(d, sort_keys=True): the items by ascending key.
json_dumps(d) ==
    IF Len(d) = 0
    THEN <<>>
    ELSE CHOOSE out \in [1..Len(d) -> {d[i] : i \in 1..Len(d)}] :
            /\ \A i \in 1..Len(d) : \E j \in 1..Len(d) : out[j] = d[i]
            /\ \A i \in 1..(Len(d) - 1) : StrLess(out[i].key, out[i + 1].key)

\* hashlib.md5(...).hexdigest(): one digest for each text.
md5_hexdigest(text) == <<"md5", text>>

\* Index.deterministic_hash of an Index iterating its stages as seq.
deterministic_hash(seq) == md5_hexdigest(json_dumps(DictOf(seq, Len(seq))))

\* Two stage objects that are the same stage: Stage.__eq__ and
\* PipelineStage.__eq__ compare the path and the name.
SameStage(x, y) == x.path = y.path /\ x.name = y.name

\* A stage is added to the set the Index holds.
HashAdd(st) ==
    /\ Len(hstages) < MaxHashStages
    /\ \A i \in 1..Len(hstages) : ~SameStage(hstages[i], st)
    /\ hstages' = Append(hstages, st)
    /\ UNCHANGED nonHashVars

\* The same stage set in another order of insertion.
HashReorder(i) ==
    /\ i \in 1..(Len(hstages) - 1)
    /\ hstages' = [hstages EXCEPT ![i] = hstages[i + 1],
                                  ![i + 1] = hstages[i]]
    /\ UNCHANGED nonHashVars

\* Stage.save: the stored digest becomes the computed one.
HashSave(i) ==
    /\ i \in 1..Len(hstages)
    /\ hstages' = [hstages EXCEPT ![i].md5 = Stage_compute_md5(hstages[i])]
    /\ UNCHANGED nonHashVars

\* The stage is collected again after its file was edited: another
\* definition, another stored digest or none.
HashReload(i, md5, def) ==
    /\ i \in 1..Len(hstages)
    /\ hstages' = [hstages EXCEPT ![i].md5 = md5, ![i].def = def]
    /\ hstages' # hstages
    /\ UNCHANGED nonHashVars

InitHash ==
    /\ hstages = <<>>
    /\ stages = <<>>
    /\ ws = <<>>
    /\ cache = <<>>
    /\ dvcfile = NoDvcfile
    /\ envChanges = 0
    /\ last = [op |-> "init"]
    /\ trip = NoTrip
    /\ IndexIdle
    /\ LockIdle
    /\ ReproIdle
    /\ LinksIdle
    /\ IgnoreIdle
    /\ FilterIdle

NextHash ==
    \/ \E st \in HashStageObjects : HashAdd(st)
    \/ \E i \in 1..MaxHashStages : HashReorder(i)
    \/ \E i \in 1..MaxHashStages : HashSave(i)
    \/ \E i \in 1..MaxHashStages, md5 \in Digests \cup {NoDigest},
          def \in Definitions : HashReload(i, md5, def)

SpecHash == InitHash /\ [][NextHash]_vars

\* ------------------------------------------------------------------
\* THE IGNORE PATTERNS OF ONE DIRECTORY
\* ------------------------------------------------------------------

\* How many lines the ignore file holds at most.
MaxPatterns == 3

\* The lines an ignore file is written from: patterns, their negations, a
\* pattern for directories only, and a comment.
IgnoreLines == {"*.log", "!*.log", "keep", "!keep", "*", "d/", "!d/", "#c"}

\* The texts the compiled patterns are matched against: the paths
\* relative to the directory of the ignore file, and the directory path
\* with its trailing slash.
IgnoreTexts == {"keep", "x.log", "d", "d/"}

\* The candidates of a walk: <<path, is_dir>>.
IgnoreCandidates ==
    {<<"keep", FALSE>>, <<"x.log", FALSE>>, <<"d", FALSE>>, <<"d", TRUE>>}

\* GitWildMatchPattern.pattern_to_regex(line): the regex, given by the
\* texts it matches, and whether the line includes (TRUE) or negates;
\* a comment compiles to (None, None).
pattern_to_regex(line) ==
    CASE line = "#c"     -> [regex |-> {}, include |-> FALSE, none |-> TRUE]
      [] line = "*.log"  -> [regex |-> {"x.log"}, include |-> TRUE, none |-> FALSE]
      [] line = "!*.log" -> [regex |-> {"x.log"}, include |-> FALSE, none |-> FALSE]
      [] line = "keep"   -> [regex |-> {"keep"}, include |-> TRUE, none |-> FALSE]
      [] line = "!keep"  -> [regex |-> {"keep"}, include |-> FALSE, none |-> FALSE]
      [] line = "*"      -> [regex |-> IgnoreTexts, include |-> TRUE, none |-> FALSE]
      [] line = "d/"     -> [regex |-> {"d/"}, include |-> TRUE, none |-> FALSE]
      [] line = "!d/"    -> [regex |-> {"d/"}, include |-> FALSE, none |-> FALSE]

\* pattern.match(text) of a compiled regex.
re_match(regex, text) == text \in regex

\* The key the patterns are grouped by: x[1], which is True, False or None.
GroupKey(x) == IF x.none THEN "None" ELSE IF x.include THEN "True" ELSE "False"

\* itertools.groupby(regex_pattern_list, key): the runs of consecutive
\* items with equal key, in order.
RECURSIVE groupby(_, _)
groupby(seq, k) ==
    IF k = 0
    THEN <<>>
    ELSE LET before == groupby(seq, k - 1)
             n == Len(before)
         IN  IF n > 0 /\ before[n].key = GroupKey(seq[k])
             THEN [before EXCEPT ![n].group = Append(@, seq[k])]
             ELSE Append(before, [key |-> GroupKey(seq[k]), group |-> <<seq[k]>>])

\* DvcIgnorePatterns.__init__: regex_pattern_list, and ignore_spec: for
\* each run that is not of comments, its polarity and the alternation
\* "|".join(...) of its regexes.
regex_pattern_list(lines) == [i \in 1..Len(lines) |-> pattern_to_regex(lines[i])]

ignore_spec_DropNegations(lines) ==
    LET runs == SelectSeq(groupby(regex_pattern_list(lines), Len(lines)),
                          LAMBDA g : g.key = "True")
    IN  [i \in 1..Len(runs) |->
            [ignore |-> TRUE,
             pattern |-> UNION {runs[i].group[j].regex :
                                   j \in 1..Len(runs[i].group)}]]

ignore_spec(lines) ==
    LET runs == SelectSeq(groupby(regex_pattern_list(lines), Len(lines)),
                          LAMBDA g : g.key # "None")
    IN  [i \in 1..Len(runs) |->
            [ignore |-> runs[i].key = "True",
             pattern |-> UNION {runs[i].group[j].regex :
                                   j \in 1..Len(runs[i].group)}]]

\* The test the loop of DvcIgnorePatterns.ignore makes on one item of
\* ignore_spec: a directory is tried as path and as path_dir = path + "/".
RunMatches(item, path, is_dir) ==
    LET path_dir == IF path = "d" THEN "d/" ELSE path
    IN  IF is_dir
        THEN re_match(item.pattern, path) \/ re_match(item.pattern, path_dir)
        ELSE re_match(item.pattern, path)

\* The loop of DvcIgnorePatterns.ignore over the first k items of spec.
RECURSIVE IgnoreLoop(_, _, _, _)
IgnoreLoop(spec, k, path, is_dir) ==
    IF k = 0
    THEN FALSE
    ELSE LET result == IgnoreLoop(spec, k - 1, path, is_dir)
         IN  IF RunMatches(spec[k], path, is_dir)
             THEN spec[k].ignore
             ELSE result

\* DvcIgnorePatterns.ignore answering with the first run that matches.
ignore_FirstMatch(lines, path, is_dir) ==
    LET spec == ignore_spec(lines)
        hits == {k \in 1..Len(spec) : RunMatches(spec[k], path, is_dir)}
    IN  IF hits = {}
        THEN FALSE
        ELSE spec[CHOOSE k \in hits : \A h \in hits : k <= h].ignore

\* DvcIgnorePatterns.ignore(path, is_dir) of the object built from lines.
ignore(lines, path, is_dir) ==
    LET spec == ignore_spec(lines)
    IN  IgnoreLoop(spec, Len(spec), path, is_dir)

\* DvcIgnorePatterns.from_files reads one more line of the ignore file.
IgnoreReadLine(line) ==
    /\ Len(pattern_list) < MaxPatterns
    /\ pattern_list' = Append(pattern_list, line)
    /\ matched' = [op |-> "read"]
    /\ UNCHANGED nonIgnoreVars

\* DvcIgnorePatterns.matches for a candidate in the anchor directory.
IgnoreMatches(path, is_dir) ==
    /\ matched' = [op |-> "matches", path |-> path, is_dir |-> is_dir,
                   result |-> ignore(pattern_list, path, is_dir)]
    /\ UNCHANGED pattern_list
    /\ UNCHANGED nonIgnoreVars

\* DvcIgnorePatterns.__call__(root, dirs, files) in the anchor directory:
\* the dirs and the files that the patterns do not match.
IgnoreCall(dirs, files) ==
    /\ matched' = [op |-> "call", dirs |-> dirs, files |-> files,
                   kept_dirs |-> {d \in dirs : ~ignore(pattern_list, d, TRUE)},
                   kept_files |-> {f \in files :
                                      ~ignore(pattern_list, f, FALSE)}]
    /\ UNCHANGED pattern_list
    /\ UNCHANGED nonIgnoreVars

InitIgnore ==
    /\ pattern_list = <<>>
    /\ matched = [op |-> "init"]
    /\ hstages = <<>>
    /\ stages = <<>>
    /\ ws = <<>>
    /\ cache = <<>>
    /\ dvcfile = NoDvcfile
    /\ envChanges = 0
    /\ last = [op |-> "init"]
    /\ trip = NoTrip
    /\ IndexIdle
    /\ LockIdle
    /\ ReproIdle
    /\ LinksIdle
    /\ FilterIdle

NextIgnore ==
    \/ \E line \in IgnoreLines : IgnoreReadLine(line)
    \/ \E c \in IgnoreCandidates : IgnoreMatches(c[1], c[2])
    \/ \E dirs \in SUBSET {"d"}, files \in SUBSET {"keep", "x.log"} :
          IgnoreCall(dirs, files)

SpecIgnore == InitIgnore /\ [][NextIgnore]_vars

\* ------------------------------------------------------------------
\* THE IGNORE FILTER OF A REPOSITORY
\* ------------------------------------------------------------------

\* Paths are sequences of names.  The repository at r holds the
\* directories a, a/b and c; x lies outside of it.
RootDir == <<"r">>

InsideDirs == {<<"r">>, <<"r", "a">>, <<"r", "a", "b">>, <<"r", "c">>}

OutsideDirs == {<<"x">>, <<"x", "a">>}

\* The directories and the files a walk lists in a directory.
ChildDirs(dir) ==
    {d \in InsideDirs \cup OutsideDirs :
        Len(d) = Len(dir) + 1 /\ SubSeq(d, 1, Len(dir)) = dir}

ChildNames(dir) == {d[Len(d)] : d \in ChildDirs(dir)}

FileNames == {"keep", "b"}

\* os.path.dirname and os.path.basename of a path of two names or more.
Dirname(path) == SubSeq(path, 1, Len(path) - 1)

Basename(path) == path[Len(path)]

\* Whether path is dir or lies under it.
IsUnder(path, dir) ==
    Len(path) >= Len(dir) /\ SubSeq(path, 1, Len(dir)) = dir

\* The lines an ignore file may hold in each directory; <<>> is a
\* directory without an ignore file.
IgnoreFiles ==
    {f \in [InsideDirs -> {<<>>, <<"a">>, <<"a", "!a">>, <<"b">>, <<"keep">>}] :
        /\ f[<<"r">>] \in {<<>>, <<"a">>, <<"a", "!a">>}
        /\ f[<<"r", "a">>] \in {<<>>, <<"b">>}
        /\ f[<<"r", "a", "b">>] \in {<<>>, <<"keep">>}
        /\ f[<<"r", "c">>] \in {<<>>, <<"keep">>}}

\* The directories that may be the root of a nested repository.
NestedRepos == {<<"r", "a", "b">>, <<"r", "c">>}

\* A line of an ignore file as a PatternInfo: the line, the directory it
\* is relative to, and whether it carries a file_info (a line read from a
\* file does, a default or injected pattern does not).
PatternInfo(line, anchor, from_file) ==
    [line |-> line, anchor |-> anchor, file_info |-> from_file]

\* The name a line is about, and its form: a bare name matches an entry of
\* that name at any depth and all below it; "name/" only a directory;
\* "/name/" only a directory that is a child of the anchor.
LineName(line) ==
    CASE line \in {"a", "!a", "/a/"} -> "a"
      [] line \in {"b", "/b/"} -> "b"
      [] line = "/c/" -> "c"
      [] line = "keep" -> "keep"
      [] line = ".dvc/" -> ".dvc"

LineForm(line) ==
    CASE line \in {"a", "!a", "b", "keep"} -> "name"
      [] line = ".dvc/" -> "dir"
      [] line \in {"/a/", "/b/", "/c/"} -> "rooted"

LineIncludes(line) == line # "!a"

\* Whether the compiled pattern matches the path, or for a directory the
\* path with a trailing slash.  A pattern merged into the set of an
\* ancestor is rewritten to keep matching below its own anchor only.
PatternMatches(p, path, is_dir) ==
    /\ Len(path) > Len(p.anchor)
    /\ IsUnder(path, p.anchor)
    /\ LET rel == SubSeq(path, Len(p.anchor) + 1, Len(path))
           n == LineName(p.line)
       IN  CASE LineForm(p.line) = "name" ->
                    \E i \in 1..Len(rel) : rel[i] = n
             [] LineForm(p.line) = "dir" ->
                    \/ \E i \in 1..(Len(rel) - 1) : rel[i] = n
                    \/ is_dir /\ rel[Len(rel)] = n
             [] LineForm(p.line) = "rooted" ->
                    rel[1] = n /\ (Len(rel) > 1 \/ is_dir)

\* A DvcIgnorePatterns object: its pattern_list and its dirname.
DvcIgnorePatterns(plist, dirname) == [pattern_list |-> plist, dirname |-> dirname]

\* DvcIgnorePatterns.ignore over the first k patterns: the polarity of the
\* last one that matches.
RECURSIVE PatternsIgnore(_, _, _, _)
PatternsIgnore(plist, k, path, is_dir) ==
    IF k = 0
    THEN FALSE
    ELSE IF PatternMatches(plist[k], path, is_dir)
         THEN LineIncludes(plist[k].line)
         ELSE PatternsIgnore(plist, k - 1, path, is_dir)

\* DvcIgnorePatterns.matches(dirname, basename, is_dir): the normalized
\* path exists only for a dirname at or under the object's dirname.
Patterns_matches(obj, dirname, basename, is_dir) ==
    IF ~IsUnder(dirname, obj.dirname)
    THEN [err |-> "OutOfWorkingSpaceError", result |-> FALSE]
    ELSE [err |-> "none",
          result |-> PatternsIgnore(obj.pattern_list, Len(obj.pattern_list),
                                    Append(dirname, basename), is_dir)]

\* DvcIgnorePatterns.match_details: the file_info of each matching
\* pattern; a matching pattern without file_info raises.
Patterns_match_details(obj, dirname, basename, is_dir) ==
    LET path == Append(dirname, basename)
        hits == SelectSeq(obj.pattern_list,
                          LAMBDA p : PatternMatches(p, path, is_dir))
    IN  IF ~IsUnder(dirname, obj.dirname)
           \/ \E i \in 1..Len(hits) : ~hits[i].file_info
        THEN [err |-> "OutOfWorkingSpaceError", result |-> <<>>]
        ELSE [err |-> "none", result |-> [i \in 1..Len(hits) |-> hits[i].line]]

\* DvcIgnorePatterns.__call__(root, dirs, files).
Patterns_call(obj, root, dirs, files) ==
    [dirs |-> {d \in dirs : ~Patterns_matches(obj, root, d, TRUE).result},
     files |-> {f \in files : ~Patterns_matches(obj, root, f, FALSE).result}]

\* merge_patterns putting the patterns of the deeper directory first.
merge_patterns_DeeperFirst(pattern_a, prefix_a, pattern_b, prefix_b) ==
    IF Len(pattern_a) = 0 THEN DvcIgnorePatterns(pattern_b, prefix_b)
    ELSE IF Len(pattern_b) = 0 THEN DvcIgnorePatterns(pattern_a, prefix_a)
    ELSE DvcIgnorePatterns(
             IF Len(prefix_a) <= Len(prefix_b)
             THEN pattern_b \o pattern_a ELSE pattern_a \o pattern_b,
             IF Len(prefix_a) <= Len(prefix_b) THEN prefix_a ELSE prefix_b)

\* merge_patterns(pattern_a, prefix_a, pattern_b, prefix_b): both lists
\* relative to the common directory, the list of the shorter prefix first.
\* The two prefixes are a directory and one of its ancestors, or equal.
merge_patterns(pattern_a, prefix_a, pattern_b, prefix_b) ==
    IF Len(pattern_a) = 0 THEN DvcIgnorePatterns(pattern_b, prefix_b)
    ELSE IF Len(pattern_b) = 0 THEN DvcIgnorePatterns(pattern_a, prefix_a)
    ELSE DvcIgnorePatterns(
             IF Len(prefix_a) <= Len(prefix_b)
             THEN pattern_a \o pattern_b ELSE pattern_b \o pattern_a,
             IF Len(prefix_a) <= Len(prefix_b) THEN prefix_a ELSE prefix_b)

\* StringTrie.longest_prefix(dirname).key: the longest key that dirname is
\* at or under; NoKey when there is none.
NoKey == <<>>

longest_prefix(tr, dirname) ==
    LET keys == {k \in DOMAIN tr : IsUnder(dirname, k)}
    IN  IF keys = {}
        THEN NoKey
        ELSE CHOOSE k \in keys : \A j \in keys : Len(j) <= Len(k)

\* DvcIgnorePatterns.from_files: the lines of the ignore file of dirname.
from_files(fs, dirname) ==
    DvcIgnorePatterns(
        [i \in 1..Len(fs.ignorefile[dirname]) |->
            PatternInfo(fs.ignorefile[dirname][i], dirname, TRUE)],
        dirname)

\* "/{}/".format(d) for a child directory d.
SubRepoLine(d) == CASE d = "a" -> "/a/" [] d = "b" -> "/b/" [] d = "c" -> "/c/"

\* DvcIgnoreFilter._update_sub_repo leaving the patterns as they are.
Filter_update_sub_repo_Skip(tr, fs, root) == tr

\* DvcIgnoreFilter._update_sub_repo(root, dirs): for each child that is
\* the root of a repository a pattern "/child/" is merged into the set of
\* root.  No directory of the tree has two children that are repositories.
Filter_update_sub_repo(tr, fs, root) ==
    LET subs == {d \in ChildDirs(root) : d \in fs.repos}
    IN  IF subs = {}
        THEN tr
        ELSE LET d == CHOOSE d \in subs : TRUE
                 new_pattern == DvcIgnorePatterns(
                     <<PatternInfo(SubRepoLine(Basename(d)), root, FALSE)>>,
                     root)
                 old_pattern == tr[longest_prefix(tr, root)]
                 merged == merge_patterns(old_pattern.pattern_list,
                                          old_pattern.dirname,
                                          new_pattern.pattern_list,
                                          new_pattern.dirname)
             IN  [k \in DOMAIN tr \cup {root} |->
                     IF k = root THEN merged ELSE tr[k]]

\* DvcIgnoreFilter._update reading the ignore file whether or not the
\* inherited patterns ignore it.
Filter_update_ReadIgnored(tr, fs, dirname) ==
    LET old_pattern == tr[longest_prefix(tr, dirname)]
        own == IF Len(fs.ignorefile[dirname]) > 0
               THEN LET new_pattern == from_files(fs, dirname)
                    IN  merge_patterns(old_pattern.pattern_list,
                                       old_pattern.dirname,
                                       new_pattern.pattern_list,
                                       new_pattern.dirname)
               ELSE old_pattern
        set == [k \in DOMAIN tr \cup {dirname} |->
                   IF k = dirname THEN own ELSE tr[k]]
    IN  Filter_update_sub_repo(set, fs, dirname)

\* DvcIgnoreFilter._update(dirname): the patterns of the nearest entry of
\* the trie, merged with the ignore file of dirname when that file exists
\* and those patterns do not ignore it; then the nested repositories.
Filter_update(tr, fs, dirname) ==
    LET old_pattern == tr[longest_prefix(tr, dirname)]
        matches == Patterns_matches(old_pattern, dirname, ".dvcignore",
                                    FALSE).result
        own == IF ~matches /\ Len(fs.ignorefile[dirname]) > 0
               THEN LET new_pattern == from_files(fs, dirname)
                    IN  merge_patterns(old_pattern.pattern_list,
                                       old_pattern.dirname,
                                       new_pattern.pattern_list,
                                       new_pattern.dirname)
               ELSE old_pattern
        set == [k \in DOMAIN tr \cup {dirname} |->
                   IF k = dirname THEN own ELSE tr[k]]
    IN  Filter_update_sub_repo(set, fs, dirname)

\* The loop of _get_trie_pattern: _update for the first k of dirs.
RECURSIVE UpdateAll(_, _, _, _)
UpdateAll(tr, fs, dirs, k) ==
    IF k = 0 THEN tr ELSE Filter_update(UpdateAll(tr, fs, dirs, k - 1), fs, dirs[k])

\* DvcIgnoreFilter._get_trie_pattern running _update for dirname alone.
Filter_get_trie_pattern_OnlyLast(tr, fs, dirname) ==
    IF dirname \in DOMAIN tr /\ Len(tr[dirname].pattern_list) > 0
    THEN [err |-> "none", trie |-> tr, value |-> tr[dirname]]
    ELSE IF longest_prefix(tr, dirname) = NoKey
         THEN [err |-> "OutOfWorkingSpaceError", trie |-> tr,
               value |-> DvcIgnorePatterns(<<>>, NoKey)]
         ELSE [err |-> "none", trie |-> Filter_update(tr, fs, dirname),
               value |-> Filter_update(tr, fs, dirname)[dirname]]

\* DvcIgnoreFilter._get_trie_pattern(dirname): the entry of the trie, or,
\* after _update for each directory from below the nearest entry down to
\* dirname, the new entry; a dirname under no entry raises.
Filter_get_trie_pattern(tr, fs, dirname) ==
    IF dirname \in DOMAIN tr /\ Len(tr[dirname].pattern_list) > 0
    THEN [err |-> "none", trie |-> tr, value |-> tr[dirname]]
    ELSE LET prefix == longest_prefix(tr, dirname)
         IN  IF prefix = NoKey
             THEN [err |-> "OutOfWorkingSpaceError", trie |-> tr,
                   value |-> DvcIgnorePatterns(<<>>, NoKey)]
             ELSE LET dirs == [i \in 1..(Len(dirname) - Len(prefix)) |->
                                  SubSeq(dirname, 1, Len(prefix) + i)]
                      done == UpdateAll(tr, fs, dirs, Len(dirs))
                  IN  [err |-> "none", trie |-> done, value |-> done[dirname]]

\* DvcIgnoreFilter.__init__: the default patterns at the root, then
\* _update(root_dir).
default_ignore_patterns == <<PatternInfo(".dvc/", RootDir, FALSE)>>

Filter_init(fs) ==
    Filter_update([k \in {RootDir} |->
                      DvcIgnorePatterns(default_ignore_patterns, RootDir)],
                  fs, RootDir)

\* DvcIgnoreFilter._outside_repo: the path relative to the root starts
\* with "..".
outside_repo(path) == ~IsUnder(path, RootDir)

\* DvcIgnoreFilter._is_ignored answering False for a path out of the
\* working space.
Filter_is_ignored_OutsideFalse(tr, fs, path, is_dir) ==
    IF outside_repo(path)
    THEN [trie |-> tr, result |-> FALSE]
    ELSE LET g == Filter_get_trie_pattern(tr, fs, Dirname(path))
             m == Patterns_matches(g.value, Dirname(path), Basename(path),
                                   is_dir)
         IN  IF g.err # "none" \/ m.err # "none"
             THEN [trie |-> g.trie, result |-> FALSE]
             ELSE [trie |-> g.trie, result |-> m.result]

\* DvcIgnoreFilter._is_ignored(path, is_dir): OutOfWorkingSpaceError,
\* raised by _outside_repo, _get_trie_pattern or matches, answers True.
Filter_is_ignored(tr, fs, path, is_dir) ==
    IF outside_repo(path)
    THEN [trie |-> tr, result |-> TRUE]
    ELSE LET g == Filter_get_trie_pattern(tr, fs, Dirname(path))
             m == Patterns_matches(g.value, Dirname(path), Basename(path),
                                   is_dir)
         IN  IF g.err # "none" \/ m.err # "none"
             THEN [trie |-> g.trie, result |-> TRUE]
             ELSE [trie |-> g.trie, result |-> m.result]

\* DvcIgnoreFilter.is_ignored_dir and is_ignored_file.
is_ignored_dir(tr, fs, path) ==
    IF path = RootDir
    THEN [trie |-> tr, result |-> FALSE]
    ELSE Filter_is_ignored(tr, fs, path, TRUE)

is_ignored_file(tr, fs, path) == Filter_is_ignored(tr, fs, path, FALSE)

\* DvcIgnoreFilter.__call__(root, dirs, files): an
\* OutOfWorkingSpaceError returns dirs and files as they came.
Filter_call(tr, fs, root, dirs, files) ==
    LET g == Filter_get_trie_pattern(tr, fs, root)
    IN  IF g.err # "none"
        THEN [trie |-> g.trie, dirs |-> dirs, files |-> files]
        ELSE [trie |-> g.trie] @@ Patterns_call(g.value, root, dirs, files)

\* DvcIgnoreFilterNoop, the filter of a tree that does not use ignore
\* files: nothing is filtered, nothing is ignored.
Noop_call(root, dirs, files) == [dirs |-> dirs, files |-> files]

Noop_is_ignored_dir(path) == FALSE

\* DvcIgnoreFilter.check_ignore for one target: matched with the details
\* of its patterns, or not matched with the placeholder "::".
check_ignore(tr, fs, target, is_dir) ==
    IF outside_repo(target)
    THEN [trie |-> tr, matches |-> FALSE, patterns |-> <<"::">>]
    ELSE LET g == Filter_get_trie_pattern(tr, fs, Dirname(target))
             m == Patterns_match_details(g.value, Dirname(target),
                                         Basename(target), is_dir)
         IN  IF g.err = "none" /\ m.err = "none" /\ Len(m.result) > 0
             THEN [trie |-> g.trie, matches |-> TRUE, patterns |-> m.result]
             ELSE [trie |-> g.trie, matches |-> FALSE, patterns |-> <<"::">>]

\* The candidates the filter is asked about, <<path, is_dir>>: the file
\* keep of each directory, and each directory.
FilterCandidates ==
    {<<Append(d, "keep"), FALSE>> : d \in InsideDirs \cup OutsideDirs}
        \cup {<<d, TRUE>> : d \in InsideDirs \cup OutsideDirs}

\* _get_trie_pattern(dirname), as the walks and the tests call it.
FilterResolve(dirname) ==
    LET g == Filter_get_trie_pattern(ignores_trie_tree, fstree, dirname)
    IN  /\ ignores_trie_tree' = g.trie
        /\ answer' = [op |-> "resolve", dir |-> dirname, err |-> g.err,
                      value |-> g.value]
        /\ UNCHANGED fstree
        /\ UNCHANGED nonFilterVars

\* dvcignore(root, dirs, files) for the listing of a directory.
FilterWalk(root) ==
    LET r == Filter_call(ignores_trie_tree, fstree, root,
                         ChildNames(root), FileNames)
    IN  /\ ignores_trie_tree' = r.trie
        /\ answer' = [op |-> "call", dir |-> root,
                      dirs |-> ChildNames(root), files |-> FileNames,
                      kept_dirs |-> r.dirs, kept_files |-> r.files]
        /\ UNCHANGED fstree
        /\ UNCHANGED nonFilterVars

\* is_ignored_dir(path) or is_ignored_file(path).
FilterIsIgnored(path, is_dir) ==
    LET r == IF is_dir
             THEN is_ignored_dir(ignores_trie_tree, fstree, path)
             ELSE is_ignored_file(ignores_trie_tree, fstree, path)
    IN  /\ ignores_trie_tree' = r.trie
        /\ answer' = [op |-> "is_ignored", path |-> path, is_dir |-> is_dir,
                      result |-> r.result]
        /\ UNCHANGED fstree
        /\ UNCHANGED nonFilterVars

\* check_ignore([target]).
FilterCheckIgnore(target, is_dir) ==
    LET r == check_ignore(ignores_trie_tree, fstree, target, is_dir)
    IN  /\ ignores_trie_tree' = r.trie
        /\ answer' = [op |-> "check_ignore", path |-> target,
                      is_dir |-> is_dir, matches |-> r.matches,
                      patterns |-> r.patterns]
        /\ UNCHANGED fstree
        /\ UNCHANGED nonFilterVars

\* The same listing through the filter of a tree that was opened without
\* ignore files.
NoopWalk(root) ==
    /\ answer' = [op |-> "noop_call", dir |-> root,
                  dirs |-> ChildNames(root), files |-> FileNames,
                  kept_dirs |-> Noop_call(root, ChildNames(root), FileNames).dirs,
                  kept_files |-> Noop_call(root, ChildNames(root), FileNames).files,
                  ignored |-> {d \in ChildDirs(root) : Noop_is_ignored_dir(d)}]
    /\ UNCHANGED <<fstree, ignores_trie_tree>>
    /\ UNCHANGED nonFilterVars

InitFilter ==
    /\ fstree \in [ignorefile : IgnoreFiles, repos : SUBSET NestedRepos]
    /\ ignores_trie_tree = Filter_init(fstree)
    /\ answer = [op |-> "init"]
    /\ pattern_list = <<>>
    /\ matched = [op |-> "init"]
    /\ hstages = <<>>
    /\ stages = <<>>
    /\ ws = <<>>
    /\ cache = <<>>
    /\ dvcfile = NoDvcfile
    /\ envChanges = 0
    /\ last = [op |-> "init"]
    /\ trip = NoTrip
    /\ IndexIdle
    /\ LockIdle
    /\ ReproIdle
    /\ LinksIdle

NextFilter ==
    \/ \E d \in InsideDirs \cup OutsideDirs : FilterResolve(d)
    \/ \E d \in InsideDirs \cup OutsideDirs : FilterWalk(d)
    \/ \E c \in FilterCandidates : FilterIsIgnored(c[1], c[2])
    \/ \E c \in FilterCandidates : FilterCheckIgnore(c[1], c[2])
    \/ \E d \in InsideDirs : NoopWalk(d)

SpecFilter == InitFilter /\ [][NextFilter]_vars

\* The producer/consumer relation of a stage set, read off the declared
\* paths: s consumes what t produces.
Consumes(s, t) ==
    \E d \in DepPaths(IndexStages[s]), o \in OutPaths(IndexStages[t]) :
        IsPrefix(o, d)

RECURSIVE ReachFrom(_, _, _)
ReachFrom(S, frontier, seen) ==
    LET nxt == {t \in S : \E s \in frontier : Consumes(s, t)} \ seen
    IN  IF nxt = {} THEN seen ELSE ReachFrom(S, nxt, seen \cup nxt)

\* The stages of S that lie on a cycle of the relation.
OnCycle(S) == {s \in S : s \in ReachFrom(S, {s}, {})}

UniqueOwners(S) ==
    \A s, t \in S : \A o \in OutPaths(IndexStages[s]), p \in OutPaths(IndexStages[t]) :
        Overlap(o, p) => (s = t /\ o = p)

LastStage == stages[last.sid]

\* C2 (as claimed): after a repository checkout over outputs of which O1 has
\* its cache object and O2 has not, O1 is restored, O2 is reported failed and
\* the checkout has raised one aggregated CheckoutError.
C2_AggregatedErrorRaised ==
    last.op = "repo_checkout" =>
        \A s1, s2 \in DOMAIN stages :
            \A o1 \in Range(stages[s1].outs), o2 \in Range(stages[s2].outs) :
                (/\ o1.hash # NoHash /\ o2.hash # NoHash
                 /\ CacheOk(cache, o1.hash) /\ ~CacheOk(cache, o2.hash))
                => /\ ws[o1.path] = cache[o1.hash]
                   /\ o1.path \notin last.failed
                   /\ o2.path \in last.failed
                   /\ last.err = "CheckoutError"

\* C2 (what holds): a checkout attempts every targeted output: each one
\* whose cache object is valid is in the workspace with the cached content
\* afterwards, and each one whose cache object is missing or corrupted is in
\* the failed list, whatever happened to the other outputs.
C2_EveryOutputAttempted ==
    last.op \in {"checkout", "repo_checkout"} =>
        \A sid \in DOMAIN stages : \A i \in DOMAIN stages[sid].outs :
            LET o == stages[sid].outs[i]
                targeted == \/ last.op = "repo_checkout"
                            \/ /\ last.sid = sid
                               /\ i \in filter_outs(stages[sid], last.filter)
            IN  (targeted /\ o.use_cache) =>
                    IF o.hash # NoHash /\ CacheOk(cache, o.hash)
                    THEN ws[o.path] = cache[o.hash] /\ o.path \notin last.failed
                    ELSE o.path \in last.failed

C2_Witness ==
    /\ last.op = "repo_checkout"
    /\ last.added = {<<"o1">>}
    /\ last.failed = {<<"o2">>}
    /\ ws[<<"o1">>] = "c1"

\* A commit that succeeded right after a save that succeeded.
SavedThenCommitted ==
    last.op = "commit" /\ last.afterSave /\ last.err = "none"

\* The stages that stay changed whatever is saved: a pipeline entry whose
\* command is flagged changed, and an unlocked callback or always_changed
\* stage.
StaysChanged(st) ==
    \/ st.kind = "pipeline" /\ st.cmd_changed
    \/ ~st.locked /\ (is_callback(st) \/ st.always_changed)

\* C3 (as claimed): after save() then commit(), with no filesystem change,
\* changed() returns false.
C3_UnchangedAfterSaveCommit ==
    SavedThenCommitted => ~Changed(LastStage, ws, cache).changed

\* C3 (amended): after save() then commit(), with no filesystem change,
\* changed() returns false, except for a stage that stays changed whatever
\* is saved, for which it returns true.
C3_SaveCommitUnchanged ==
    SavedThenCommitted =>
        (Changed(LastStage, ws, cache).changed <=> StaysChanged(LastStage))

C3_Witness ==
    /\ SavedThenCommitted
    /\ Len(LastStage.deps) = 2
    /\ ~LastStage.locked
    /\ ~Changed(LastStage, ws, cache).changed

\* C4: once content C has been written to a cache-tracked output O, its
\* stage saved and committed, O deleted and the stage checked out, O holds C
\* again and changed_outs() of the stage is false.
C4_RoundTrip ==
    trip.phase = 5 =>
        /\ ws[trip.path] = trip.c
        /\ \A sid \in DOMAIN stages :
              trip.path \in OutPaths(stages[sid])
              => ~changed_outs(stages[sid], ws, cache).changed

C4_Witness ==
    /\ trip.phase = 5
    /\ trip.path = <<"o1">>
    /\ trip.c = "c2"
    /\ last.op = "checkout"
    /\ last.added = {<<"o1">>}

C7_ChangedShortCircuits ==
    \A sid \in DOMAIN stages :
        LET st == stages[sid]
            r  == Changed(st, ws, cache)
            d  == changed_deps(st, ws)
            o  == changed_outs(st, ws, cache)
        IN  /\ r.changed = (changed_stage(st) \/ d.changed \/ o.changed)
            /\ r.checks = IF changed_stage(st) THEN <<"stage">>
                          ELSE IF d.changed THEN <<"stage", "deps">>
                          ELSE <<"stage", "deps", "outs">>
            /\ changed_stage(st) => r.deps = 0 /\ r.outs = 0
            /\ d.changed => r.outs = 0

C7_Witness ==
    /\ last.op = "reproduce"
    /\ last.err = "DvcException"
    /\ changed_stage(LastStage)
    /\ \E i \in DOMAIN LastStage.deps : DepStatus(LastStage.deps[i], ws) # ""
    /\ changed_outs(LastStage, ws, cache).changed
    /\ Changed(LastStage, ws, cache).checks = <<"stage">>

\* C8: changed_deps() is false for a locked stage, without querying a
\* dependency; otherwise true for a stage with a command and no dependency;
\* otherwise true when always_changed is set; otherwise true iff some
\* dependency has a non-empty status.
C8_ChangedDepsPrecedence ==
    \A sid \in DOMAIN stages :
        LET st == stages[sid]
            r  == changed_deps(st, ws)
        IN  IF st.locked THEN ~r.changed /\ r.queried = 0
            ELSE IF st.cmd # "none" /\ Len(st.deps) = 0 THEN r.changed
            ELSE IF st.always_changed THEN r.changed
            ELSE r.changed <=>
                    \E i \in DOMAIN st.deps : DepStatus(st.deps[i], ws) # ""

C8_Witness ==
    /\ last.op = "reproduce"
    /\ last.ret = "None"
    /\ LastStage.locked
    /\ \E i \in DOMAIN LastStage.deps : DepStatus(LastStage.deps[i], ws) # ""

\* C9: a reproduce runs only when the stage changed or force was given;
\* otherwise it returns None and leaves the stage, the workspace and the
\* cache as they were, executing nothing.  After a non-dry run that
\* returned, every output's recorded hash is the hash of its content and the
\* stored digest is the digest of the definition.
C9_ReproduceOnlyIfChanged ==
    [][last'.op = "reproduce" =>
          LET st  == stages[last'.sid]
              ch  == Changed(st, ws, cache).changed
              st2 == stages'[last'.sid]
          IN  /\ last'.ran => (ch \/ last'.force)
              /\ (~ch /\ ~last'.force) =>
                    /\ last'.ret = "None"
                    /\ ~last'.ran
                    /\ stages' = stages /\ ws' = ws /\ cache' = cache
              /\ (last'.ret = "self" /\ ~last'.dry) =>
                    /\ \A i \in DOMAIN st2.outs :
                          /\ ws'[st2.outs[i].path] # Absent
                          /\ st2.outs[i].hash = Hash(ws'[st2.outs[i].path])
                    /\ st2.md5 = compute_md5(st2)]_vars

C9_Witness ==
    /\ last.op = "reproduce"
    /\ last.ret = "None"
    /\ ~last.force
    /\ ~last.ran
    /\ LastStage.cmd # "none"
    /\ Len(LastStage.deps) = 1
    /\ ~LastStage.locked

\* The condition under which a proposed stage is cached: it is not a
\* callback stage, not always_changed, and the definition stored for its
\* name has unchanged outputs, the same command and flags, the same outputs,
\* and dependency digests equal to the digests of the present dependencies.
PriorMatches(st) ==
    /\ ~is_callback(st)
    /\ ~st.always_changed
    /\ st.name \in DOMAIN dvcfile.stages
    /\ LET old == dvcfile.stages[st.name]
       IN  /\ \A o \in Range(old.outs) : OutStatus(o, ws, cache) = ""
           /\ old.cmd = st.cmd
           /\ old.locked = st.locked
           /\ old.always_changed = st.always_changed
           /\ {[o EXCEPT !.hash = NoHash] : o \in Range(old.outs)} = Range(st.outs)
           /\ \A d \in Range(st.deps) : ws[d.path] # Absent
           /\ Range(old.deps) =
                 {[d EXCEPT !.hash = Hash(ws[d.path])] : d \in Range(st.deps)}

\* The run-cache is ignored for a stage: disabled, or an output persists.
IgnoresRunCache(st, run_cache) ==
    ~run_cache \/ \E o \in Range(st.outs) : o.persist

\* C10 (as claimed): a proposed stage can be skipped iff it is not a
\* callback stage, not always_changed, and the stored definition matches;
\* and whenever it can be skipped, defining it again commits the stored
\* definition's outputs and returns no stage.
C10_CachedIsSkipped ==
    [][last'.op = "run" =>
          /\ DOMAIN dvcfile.stages # {} =>
                (can_be_skipped(last'.proposed, dvcfile.stages, ws, cache).value
                    <=> PriorMatches(last'.proposed))
          /\ PriorMatches(last'.proposed) =>
                (last'.ret = "None" /\ last'.committed)]_vars

\* C10 (amended): a proposed stage whose file exists can be skipped iff it
\* is not a callback stage, not always_changed, and the stored definition
\* matches; defining it returns no stage iff it can be skipped and the
\* run-cache is not ignored, and then the stored definition's outputs were
\* committed and nothing else changed.
C10_CachedIffPriorMatches ==
    /\ [](\A st \in Proposals(dvcfile.kind) :
            DOMAIN dvcfile.stages # {} =>
               (can_be_skipped(st, dvcfile.stages, ws, cache).value
                   <=> PriorMatches(st)))
    /\ [][last'.op = "run" =>
            /\ last'.ret = "None" <=>
                  /\ PriorMatches(last'.proposed)
                  /\ ~IgnoresRunCache(last'.proposed, last'.run_cache)
            /\ last'.ret = "None" =>
                  /\ last'.evaluated
                  /\ last'.committed
                  /\ dvcfile' = dvcfile /\ ws' = ws /\ cache' = cache
            /\ IgnoresRunCache(last'.proposed, last'.run_cache) =>
                  ~last'.evaluated /\ ~last'.committed]_vars

C10_Witness ==
    /\ last.op = "run"
    /\ last.ret = "None"
    /\ last.committed
    /\ last.proposed.name = "t"
    /\ last.proposed.cmd = "cmd2"
    /\ dvcfile.kind = "pipeline"

\* A stage that has outputs, all of them persist.
AllPersist(st) ==
    Len(st.outs) > 0 /\ \A o \in Range(st.outs) : o.persist

\* C11: defining a stage whose outputs are all persist never returns None,
\* and the cached-stage check is not evaluated for it: nothing is committed
\* by create_stage, whatever the stored definition and the run_cache
\* argument.
C11_PersistBypassesRunCache ==
    [][(last'.op = "run" /\ AllPersist(last'.proposed)) =>
          /\ last'.ret = "stage"
          /\ ~last'.evaluated
          /\ ~last'.committed]_vars

\* The persist stage is defined again, with the run-cache enabled, over a
\* stored definition that matches and whose outputs are unchanged: the
\* stage is returned, and its command runs (and here fails, so that the
\* stored definition is still the earlier one).
C11_Witness ==
    /\ last.op = "run"
    /\ AllPersist(last.proposed)
    /\ last.run_cache
    /\ last.ret = "stage"
    /\ last.err # "none"
    /\ last.proposed.name \in DOMAIN dvcfile.stages
    /\ envChanges = 0
    /\ LET old == dvcfile.stages[last.proposed.name]
       IN  /\ stage_dump_eq(dumpd(old), dumpd([last.proposed EXCEPT !.deps = old.deps]))
           /\ ~changed_outs(old, ws, cache).changed

\* The operations that change the repository, and those that only read it.
MutatingOps == {"checkout", "lock", "unlock"}

ReadOnlyOps == {"diff", "show"}

\* The processes that are in the body of one of the operations ops.
InBody(ops) == {p \in Procs : pc[p].at = "body" /\ pc[p].op \in ops}

\* C12 (as claimed): a process in the body of a mutating operation holds
\* the repository lock, so no two processes are in such bodies at once, and
\* a process that has left its operation, by return or raise, does not hold
\* the lock.
C12_MutatingHoldsLock ==
    /\ \A p \in InBody(MutatingOps) : repoLock = p
    /\ Cardinality(InBody(MutatingOps)) <= 1
    /\ \A p \in Procs : pc[p].at = "idle" => repoLock # p

\* C12 (what holds): a process in the body of lock or unlock holds the
\* repository lock, no two processes are in such bodies at once, and a
\* process that has left its operation, by return or raise, does not hold
\* the lock.
C12_LockUnlockHoldLock ==
    /\ \A p \in InBody({"lock", "unlock"}) : repoLock = p
    /\ Cardinality(InBody({"lock", "unlock"})) <= 1
    /\ \A p \in Procs : pc[p].at = "idle" => repoLock # p

\* One process is in the body of lock, holding the repository lock, while
\* the other has called unlock and waits for the lock.
C12_Witness ==
    /\ pc[1] = [op |-> "lock", at |-> "body", raised |-> FALSE]
    /\ repoLock = 1
    /\ pc[2] = [op |-> "unlock", at |-> "called", raised |-> FALSE]
    /\ ~stages["t"].locked

\* C13 (as claimed): a process in a read-only operation never holds the
\* repository lock.
C13_ReadOnlyTakesNoLock ==
    \A p \in Procs : pc[p].op \in ReadOnlyOps => repoLock # p

\* The executors whose stage command is running.
RunningCommands == {e \in Executors : executors[e].running}

\* The stages of executor x whose reproduce() has been called so far.
Started(x) == x.done + (IF x.running THEN 1 ELSE 0)

\* In executor x, stage s reads a path that stage t writes.
Reads(x, s, t) ==
    \E d \in DepPaths(x.stages[s]), o \in OutPaths(x.stages[t]) : IsPrefix(o, d)

\* Within each executor, a stage's reproduce() is called only after the
\* reproduce() of every stage producing one of its dependencies returned;
\* once the executor is done, no stage is changed and each output holds
\* what its command makes of the final inputs.
ProducersFirst ==
    \A e \in Executors :
        LET x == executors[e]
        IN  /\ \A k \in 1..Started(x) : \A t \in DOMAIN x.stages :
                  Reads(x, x.order[k], t) =>
                      \E j \in 1..(k - 1) : j <= x.done /\ x.order[j] = t
            /\ x.at = "done" =>
                  /\ \A sid \in DOMAIN x.stages :
                        ~Changed(x.stages[sid], x.ws, cache).changed
                  /\ x.ws[<<"o2">>] = x.ws[<<"dep1">>]

C15_ActiveOutputsNeverRemoved ==
    (last.op = "checkout_target" /\ last.err = "none") =>
        /\ \A s \in DOMAIN stages : OutPaths(stages[s]) \cap last.removed = {}
        /\ \A p \in last.removed : last.afterCleanup[p] = Absent /\ ws[p] = Absent

\* C15 (what holds): the unused links are removed before any output is
\* checked out, so that a removed path stays removed; no output path of a
\* stage in all_stages is removed; without a target and with a single
\* target all_stages is every active stage, with a recursive target it is
\* the stages under the target directory only.
C15_UsedFromAllStages ==
    (last.op = "checkout_target" /\ last.err = "none") =>
        /\ \A s \in last.all_stages : OutPaths(stages[s]) \cap last.removed = {}
        /\ \A p \in last.removed :
              /\ last.afterCleanup[p] = Absent /\ ws[p] = Absent
              /\ p \notin links
        /\ last.stages \subseteq last.all_stages
        /\ last.all_stages =
              IF last.recursive
              THEN {s \in DOMAIN stages : IsPrefix(last.target, stages[s].file)}
              ELSE DOMAIN stages

\* A stage file was deleted, and a checkout of a single target removed the
\* link left behind, and no other.
C15_Witness ==
    /\ last.op = "checkout_target"
    /\ last.target = <<"b.dvc">>
    /\ ~last.recursive
    /\ DOMAIN stages = {"b", "c"}
    /\ last.removed = {<<"d", "o1">>}
    /\ ws[<<"d", "o1">>] = Absent
    /\ ws[<<"e", "o3">>] = "c1"

\* The workspace entries present under the root of output o.
UnderRoot(o, w) == {p \in DOMAIN w : IsPrefix(o.path, p) /\ w[p] # Absent}

\* The paths of the entries of the manifest of output o.
ManifestPaths(o, c) == {o.path \o e.rel : e \in load_dir_cache(c, o.hash)}

\* C16: after a checkout of a directory output that did not fail, without
\* a filter_info the workspace entries under the root are exactly the
\* entries of the manifest, each with the recorded content; with a
\* filter_info the same holds within the subtree, and every entry outside
\* it is as it was.  A checkout that failed changed nothing.
C16_DirectoryConverges ==
    [][last'.op = "checkout" =>
          LET o == stages[last'.sid].outs[1]
              f == last'.filter
          IN  IF last'.failed # {} THEN ws' = ws
              ELSE /\ {p \in UnderRoot(o, ws') : InFilter(p, f)}
                        = {p \in ManifestPaths(o, cache) : InFilter(p, f)}
                   /\ \A e \in load_dir_cache(cache, o.hash) :
                         InFilter(o.path \o e.rel, f)
                         => Hash(ws'[o.path \o e.rel]) = e.hash
                   /\ \A p \in DOMAIN ws : ~InFilter(p, f) => ws'[p] = ws[p]
                   /\ f \in {<<>>, o.path} =>
                         UnderRoot(o, ws') = ManifestPaths(o, cache)]_vars

\* After two changes under the root, an unfiltered checkout reports the
\* directory modified and has brought it back to the manifest: both
\* tracked files with their content, no other entry.
C16_Witness ==
    /\ last.op = "checkout"
    /\ last.filter = <<>>
    /\ last.modified = {DirRoot}
    /\ envChanges = 2
    /\ ws = [p \in DirPaths |->
                IF p = <<"data", "f1">> THEN "c1"
                ELSE IF p = <<"data", "sub", "f2">> THEN "c2" ELSE Absent]

\* C17: an operation on an Index leaves every Index obtained so far with
\* the stage set it had, and, once its graph is built, with the graph it
\* had, which is the graph derived from its stage set; a mutation that
\* returns hands back one new Index, over the changed stage set.
C17_IndexNeverMutatedInPlace ==
    /\ [][/\ Len(indices') >= Len(indices)
          /\ \A i \in DOMAIN indices :
                /\ indices'[i].stages = indices[i].stages
                /\ indices[i].graph =>
                      /\ indices'[i].graph
                      /\ indices'[i].edges = indices[i].edges
          /\ (ilast'.op = "mutate" /\ ilast'.err = "none") =>
                /\ Len(indices') = Len(indices) + 1
                /\ indices'[Len(indices')].stages = ilast'.result]_vars
    /\ [](\A i \in DOMAIN indices :
             indices[i].graph =>
                indices[i].edges =
                   GraphEdges(indices[i].stages,
                              build_outs_trie(indices[i].stages)))

\* Two mutations in a row, the second on the result of the first: the
\* three Index objects hold three different stage sets, the first its own
\* graph.
C17_Witness ==
    /\ Len(indices) = 3
    /\ indices[1].stages = {"s1"}
    /\ indices[1].graph
    /\ indices[2].stages = {"s1", "s2"}
    /\ indices[3].stages = {"s2"}
    /\ ilast.op = "mutate"

Triples(seq) ==
    {<<seq[i].path, seq[i].name, stage_kv(seq[i]).value>> : i \in 1..Len(seq)}

\* The orders in which the stages of seq can be iterated.
Orders(seq) ==
    {p \in [1..Len(seq) -> 1..Len(seq)] :
        \A i, j \in 1..Len(seq) : i # j => p[i] # p[j]}

LineMatches(lines, i, path, is_dir) ==
    /\ lines[i] # "#c"
    /\ \/ path \in pattern_to_regex(lines[i]).regex
       \/ is_dir /\ path = "d" /\ "d/" \in pattern_to_regex(lines[i]).regex

\* Whether line i is a negation.
Negation(lines, i) == lines[i] \in {"!*.log", "!keep", "!d/"}

\* C20: a candidate is ignored exactly when some pattern of the list
\* matches it and the last one that does is not a negation; matched by
\* no pattern it is not ignored.
C20_LastMatchWins ==
    matched.op = "matches" =>
        LET hits == {i \in 1..Len(pattern_list) :
                        LineMatches(pattern_list, i, matched.path,
                                    matched.is_dir)}
        IN  matched.result <=>
               /\ hits # {}
               /\ ~Negation(pattern_list,
                            CHOOSE i \in hits : \A h \in hits : h <= i)

\* The file keep was matched against "*", "#c", "!keep": two patterns
\* match, the last is the negation, and the file is not ignored.
C20_Witness ==
    /\ pattern_list = <<"*", "#c", "!keep">>
    /\ matched.op = "matches"
    /\ matched.path = "keep"
    /\ ~matched.result

\* The directory d was matched against "!d/", "d/": only its path with
\* the trailing slash matches, and it is ignored.
C20_WitnessDir ==
    /\ pattern_list = <<"!d/", "d/">>
    /\ matched.op = "matches"
    /\ matched.path = "d"
    /\ matched.is_dir
    /\ matched.result

\* The listing of the directory d of the example: the file keep and a
\* sibling that ends in .log.
ListedWhole == matched.op = "call" /\ matched.files = {"keep", "x.log"}

\* C21 as stated: with "*.log", "!keep" the file keep is kept and the
\* .log sibling is excluded, and with the two rules reversed keep is
\* excluded too.
C21_ReversedExcludesKeep ==
    /\ (ListedWhole /\ pattern_list = <<"*.log", "!keep">>) =>
          matched.kept_files = {"keep"}
    /\ (ListedWhole /\ pattern_list = <<"!keep", "*.log">>) =>
          matched.kept_files = {}

\* C21: with "*.log", "!keep" in either order the file keep is kept and
\* the .log sibling is excluded, because "*.log" does not match keep; the
\* order decides for a rule that matches keep: "*", "!keep" keeps it and
\* "!keep", "*" excludes it.
C21_OrderMattersForMatchingRules ==
    /\ (ListedWhole /\ pattern_list = <<"*.log", "!keep">>) =>
          matched.kept_files = {"keep"}
    /\ (ListedWhole /\ pattern_list = <<"!keep", "*.log">>) =>
          matched.kept_files = {"keep"}
    /\ (ListedWhole /\ pattern_list = <<"*", "!keep">>) =>
          matched.kept_files = {"keep"}
    /\ (ListedWhole /\ pattern_list = <<"!keep", "*">>) =>
          matched.kept_files = {}

\* The directory was listed under the two rules in reversed order and
\* keep was returned.
C21_Witness ==
    /\ ListedWhole
    /\ pattern_list = <<"!keep", "*.log">>
    /\ "keep" \in matched.kept_files

\* The patterns of the ignore file of dir, when the file exists and the
\* inherited patterns do not ignore it, after the inherited ones.
WithOwnFile(fs, dir, inherited) ==
    IF /\ Len(fs.ignorefile[dir]) > 0
       /\ ~PatternsIgnore(inherited, Len(inherited),
                          Append(dir, ".dvcignore"), FALSE)
    THEN inherited \o [i \in 1..Len(fs.ignorefile[dir]) |->
                          PatternInfo(fs.ignorefile[dir][i], dir, TRUE)]
    ELSE inherited

\* The rule that excludes the nested repository among the children of dir.
WithNestedRepos(fs, dir, plist) ==
    IF \E d \in ChildDirs(dir) : d \in fs.repos
    THEN Append(plist,
                PatternInfo(SubRepoLine(Basename(
                                CHOOSE d \in ChildDirs(dir) : d \in fs.repos)),
                            dir, FALSE))
    ELSE plist

\* The pattern list of a directory read off the file tree alone: the
\* default patterns, then from the root down to dir the ignore file of
\* each directory and the rule for its nested repository.
RECURSIVE RootToDir(_, _)
RootToDir(fs, dir) ==
    WithNestedRepos(fs, dir,
        WithOwnFile(fs, dir,
            IF dir = RootDir
            THEN default_ignore_patterns
            ELSE RootToDir(fs, Dirname(dir))))

IgnoredIgnoreFile(dir) ==
    /\ dir # RootDir
    /\ Len(fstree.ignorefile[dir]) > 0
    /\ Dirname(dir) \in DOMAIN ignores_trie_tree
    /\ Patterns_matches(ignores_trie_tree[Dirname(dir)], dir, ".dvcignore",
                        FALSE).result

NestedIn(dir) == {c \in ChildDirs(dir) : c \in fstree.repos}

C25_OutsideIsNeverIgnored ==
    /\ (answer.op = "is_ignored" /\ outside_repo(answer.path)) =>
          ~answer.result
    /\ (answer.op = "call" /\ outside_repo(answer.dir)) =>
          answer.kept_dirs = answer.dirs /\ answer.kept_files = answer.files
    /\ (answer.op = "check_ignore" /\ outside_repo(answer.path)) =>
          ~answer.matches /\ answer.patterns = <<"::">>

\* C25: what the filter does for a path outside of the repository: the
\* listing comes back whole and check_ignore answers not matched with the
\* placeholder, but is_ignored_dir and is_ignored_file answer True; the
\* trie is left as it was.
C25_OutsideAnswers ==
    /\ (answer.op = "is_ignored" /\ outside_repo(answer.path)) =>
          answer.result
    /\ (answer.op = "call" /\ outside_repo(answer.dir)) =>
          answer.kept_dirs = answer.dirs /\ answer.kept_files = answer.files
    /\ (answer.op = "check_ignore" /\ outside_repo(answer.path)) =>
          ~answer.matches /\ answer.patterns = <<"::">>
    /\ \A d \in DOMAIN ignores_trie_tree : ~outside_repo(d)

\* is_ignored_file was asked about the file keep of the outside directory
\* and answered True.
C25_Witness ==
    /\ answer.op = "is_ignored"
    /\ answer.path = <<"x", "keep">>
    /\ ~answer.is_dir
    /\ answer.result

(***************************************************************************)
(*                 COMMIT CHECK, UPDATE, RUN, STATUS                       *)
(***************************************************************************)

\* What save() records of a stage: its digest and its entries' hashes.
Recorded(st) == [md5 |-> st.md5, deps |-> st.deps, outs |-> st.outs]

\* C26: check_can_commit on a stage whose recorded dependency or output
\* checksums, or whose digest, changed raises StageCommitError when neither
\* force nor the user's confirmation is given, and then the stage's digest
\* and recorded hashes are as before; with force or confirmation the stage
\* is saved; when nothing changed it neither prompts nor saves.
C26_CommitCheck ==
    last.op = "check_can_commit" =>
        LET st == last.before.st
            w == last.before.ws
            changed == \/ \E i \in DOMAIN st.deps :
                             st.deps[i].hash # NoHash
                             /\ workspace_status(st.deps[i], w) # ""
                       \/ \E i \in DOMAIN st.outs :
                             st.outs[i].hash # NoHash
                             /\ workspace_status(st.outs[i], w) # ""
                       \/ changed_stage(st)
        IN  /\ last.changed = changed
            /\ (changed /\ ~last.force /\ ~last.confirm) =>
                   /\ last.err = "StageCommitError"
                   /\ stages[last.sid] = st
            /\ (changed /\ (last.force \/ last.confirm)) =>
                   /\ last.err = StageSave(st, w).err
                   /\ stages[last.sid] = StageSave(st, w).st
            /\ ~changed =>
                   /\ ~last.prompted
                   /\ last.err = "none"
                   /\ stages[last.sid] = st
            /\ last.prompted => ~last.force
            /\ ws = w /\ cache = last.before.cache

C26_Witness ==
    /\ last.op = "check_can_commit"
    /\ last.changed
    /\ ~last.force /\ ~last.confirm
    /\ last.err = "StageCommitError"
    /\ Recorded(StageSave(last.before.st, last.before.ws).st)
           # Recorded(last.before.st)

\* C27: Stage.update leaves the locked flag as it was before the call on
\* every exit, also when the reproduce it performs raises, and that
\* reproduce runs with the flag cleared; for a stage that is not an import
\* it raises StageUpdateError, updates no dependency and leaves the stage
\* as it was.
C27_UpdateRestoresLocked ==
    last.op = "update" =>
        /\ stages[last.sid].locked = last.before.st.locked
        /\ last.reproduced => ~last.locked_in_reproduce
        /\ ~is_import(last.before.st) =>
               /\ last.err = "StageUpdateError"
               /\ ~last.updated
               /\ ~last.reproduced
               /\ stages[last.sid] = last.before.st
               /\ ws = last.before.ws
               /\ cache = last.before.cache

C27_Witness ==
    /\ last.op = "update"
    /\ last.before.st.locked
    /\ last.reproduced
    /\ last.ret = "raised"
    /\ stages[last.sid].locked

\* C28: Stage.run on a locked stage removes no output and runs neither the
\* command nor the import: it verifies that the outputs exist, then saves
\* and commits; with dry it removes, saves and commits nothing; with
\* no_commit it saves and leaves the cache alone.
C28_RunFrame ==
    last.op = "run" =>
        LET st == last.before.st
            w == last.before.ws
            c == last.before.cache
        IN  /\ st.locked =>
                   /\ ~last.removed
                   /\ ~last.ran
                   /\ \A p \in DOMAIN w : w[p] # Absent => ws[p] = w[p]
                   /\ (~last.dry /\ MissingOutputs(st, w)) =>
                          /\ last.err = "MissingDataSource"
                          /\ stages[last.sid] = st /\ ws = w /\ cache = c
                   /\ (~last.dry /\ ~MissingOutputs(st, w)) =>
                          /\ stages[last.sid] = StageSave(st, w).st
                          /\ (StageSave(st, w).err = "none" /\ ~last.no_commit) =>
                                 /\ cache = StageCommit(StageSave(st, w).st, w, c).cache
                                 /\ last.err = StageCommit(StageSave(st, w).st, w, c).err
            /\ last.dry =>
                   /\ ~last.removed
                   /\ ~last.ran
                   /\ last.err = "none"
                   /\ stages[last.sid] = st /\ ws = w /\ cache = c
            /\ (last.no_commit /\ ~last.dry) =>
                   /\ cache = c
                   /\ last.err = "none" => stages[last.sid] = StageSave(st, ws).st

C28_Witness ==
    /\ last.op = "run"
    /\ last.before.st.locked
    /\ last.before.st.cmd # "none"
    /\ ~last.dry /\ ~last.no_commit
    /\ last.err = "none"
    /\ stages[last.sid] # last.before.st
    /\ cache # last.before.cache

C28_WitnessNoCommit ==
    /\ last.op = "run"
    /\ ~last.before.st.locked
    /\ last.no_commit /\ ~last.dry
    /\ last.ran
    /\ last.err = "none"
    /\ stages[last.sid] # last.before.st

\* C29: Stage.checkout with a filter_info calls the checkout of just the
\* outputs whose path contains or equals filter_info; no other output is
\* checked out or appears in the result; an output is reported under at
\* most one of added and modified, modified when its checkout reported
\* both, and under neither when it reported neither.
C29_FilteredCheckout ==
    last.op = "checkout_with" =>
        LET st == stages[last.sid]
            inside == {i \in DOMAIN st.outs :
                          last.filter = <<>>
                          \/ IsPrefix(st.outs[i].path, last.filter)}
        IN  /\ last.called = inside
            /\ last.added \cup last.modified \cup last.failed
                   \subseteq {st.outs[i].path : i \in inside}
            /\ last.added \cap last.modified = {}
            /\ \A i \in inside :
                   LET p == st.outs[i].path
                       res == last.results[i]
                   IN  /\ res = "both" => p \in last.modified
                       /\ res = "modified" => p \in last.modified
                       /\ res = "added" => p \in last.added
                       /\ res = "none" =>
                              p \notin last.added \cup last.modified \cup last.failed

C29_Witness ==
    /\ last.op = "checkout_with"
    /\ last.filter = <<"data", "f1">>
    /\ last.called = {1}
    /\ last.results = <<"both", "added", "modified">>
    /\ last.modified = {<<"data">>}
    /\ last.added = {}

\* What status() reports of a locked stage that changed() passes over: the
\* "always changed" entry, and the dependencies of an import asked about
\* with check_updates.
LockedButReported(st, w, check_updates) ==
    /\ st.locked
    /\ \/ is_callback(st)
       \/ st.always_changed
       \/ /\ check_updates
          /\ is_import(st)
          /\ \E i \in DOMAIN st.deps : DepStatus(st.deps[i], w) # ""

\* C30 as stated: status() returns an empty mapping exactly when changed()
\* returns false, for every stage and every combination of its flags.
C30_StatusAgreesWithChanged ==
    last.op = "status" => ((last.status = {}) <=> ~last.changed)

\* C30: a stage that changed() has a status; status() returns an empty
\* mapping exactly when changed() returns false and the stage is not a
\* locked stage that status() reports anyway; so the two agree on every
\* stage that is not locked.
C30_StatusAgreesUnlessLocked ==
    last.op = "status" =>
        LET st == stages[last.sid]
        IN  /\ last.changed => last.status # {}
            /\ (last.status = {}) <=>
                   (~last.changed /\ ~LockedButReported(st, ws, last.check_updates))
            /\ ~st.locked => ((last.status = {}) <=> ~last.changed)

C30_Witness ==
    /\ last.op = "status"
    /\ stages[last.sid].locked
    /\ stages[last.sid].always_changed
    /\ ~last.check_updates
    /\ ~last.changed
    /\ last.status = {"always changed"}

C30_WitnessAgree ==
    /\ last.op = "status"
    /\ ~stages[last.sid].locked
    /\ ~last.changed
    /\ last.status = {}
    /\ stages[last.sid].md5 # NoHash

====
